---- MODULE Spec2Model ----
(***************************************************************************)
(* Model of the cascading request classifier (hybrid-matcher, hybridMatch) *)
(* and of the iterative reasoning engine (tools/sequential-thinking.ts,    *)
(* processWithSequentialThinking / getNextThought).                        *)
(*                                                                         *)
(* Texts are sequences of chunks.  A chunk is an indivisible piece of a    *)
(* string: the one-character chunks " ", "\n", ":" "{" "}" stand for       *)
(* themselves, a word chunk such as "generator" stands for that substring. *)
(* Confidences are in hundredths (0.8 is 80).                              *)
(***************************************************************************)
EXTENDS Integers, Sequences, FiniteSets, TLC

\* ------------------------------------------------------------------ bounds
\* The model answers next_thought_needed = true in fewer than MaxRounds rounds.
MaxRounds == 2

\* Of two concurrent invocations, each gets next_thought_needed = true in
\* fewer than MaxRunRounds rounds.
MaxRunRounds == 3

\* The length up to which the history of an invocation without a round
\* bound is counted.
MaxLoopRounds == 3

\* --------------------------------------------------------------- constants
HIGH_CONFIDENCE == 80
MEDIUM_CONFIDENCE == 60
LOW_CONFIDENCE == 40
SEQUENTIAL_CONFIDENCE == 50
FALLBACK_CONFIDENCE == 20
INITIAL_TOTAL_THOUGHTS == 5

\* ------------------------------------------------------------------- texts
SP == " "
NL == "\n"
COLON == ":"

toLowerCase(s) == [i \in 1..Len(s) |-> (CASE s[i] = "PRD-" -> "prd-"
                                          [] s[i] = "Generator" -> "generator"
                                          [] s[i] = "Manager" -> "manager"
                                          [] s[i] = "Tool" -> "tool"
                                          [] OTHER -> s[i])]

\* String.prototype.trim: drop leading and trailing white space
RECURSIVE trimStart(_)
trimStart(s) ==
  IF s # <<>> /\ Head(s) \in {SP, NL} THEN trimStart(Tail(s)) ELSE s

RECURSIVE trimEnd(_)
trimEnd(s) ==
  IF s # <<>> /\ s[Len(s)] \in {SP, NL}
  THEN trimEnd(SubSeq(s, 1, Len(s) - 1)) ELSE s

trim(s) == trimEnd(trimStart(s))

\* s.split("\n")[0]: the part before the first line feed
RECURSIVE firstLine(_)
firstLine(s) ==
  IF s = <<>> \/ Head(s) = NL THEN <<>> ELSE <<Head(s)>> \o firstLine(Tail(s))

Min(S) == CHOOSE m \in S : \A n \in S : m <= n

\* s.replace(/^.*?: /, ""): remove the shortest prefix that ends in ": "
\* ('.' does not match a line feed, so the prefix never crosses one)
stripLabel(s) ==
  LET LabelEnds ==
        {i \in 1..(Len(s) - 1) :
           /\ s[i] = COLON /\ s[i + 1] = SP
           /\ \A j \in 1..(i - 1) : s[j] # NL}
  IN IF LabelEnds = {} THEN s
     ELSE SubSeq(s, Min(LabelEnds) + 2, Len(s))

\* String.prototype.includes for a word chunk
includes(s, w) == \E i \in 1..Len(s) : s[i] = w

\* variant: the label prefix is kept
ToolNameOf_KeepsLabel(sequentialResult) ==
  firstLine(trim(toLowerCase(sequentialResult)))

\* hybridMatch, lines 95-98
ToolNameOf(sequentialResult) ==
  stripLabel(firstLine(trim(toLowerCase(sequentialResult))))

\* hybridMatch, line 100
LooksLikeTool(toolName) ==
  /\ toolName # <<>>
  /\ (includes(toolName, "generator") \/ includes(toolName, "manager"))

\* ----------------------------------------------------------------- domains
ResearchManager == <<"research-", "manager">>
PrdGenerator == <<"prd-", "generator">>

ToolNames == {ResearchManager, PrdGenerator}

Requests == {<<"research", SP, "quantum">>, <<"help">>}

DESCRIPTION_MATCH == "description_match"
SEQUENTIAL_THINKING == "sequential_thinking"
FALLBACK == "fallback"
ResearchTopic == "research {topic}"
NoPattern == "undefined"

RuleConfValues == {0, 59, 60, 79, 80, 100}
IntentConfValues == {0, 39, 40, 79, 80}

\* a value that is absent: null, undefined, or not yet there
NoOutcome == [isNull |-> TRUE]

Candidate(t, c, p) ==
  [isNull |-> FALSE, toolName |-> t, confidence |-> c, matchedPattern |-> p]

\* matchRequest(request): some candidate, or null
matchRequest(req) ==
  {NoOutcome} \cup
  {Candidate(t, c, p) : t \in ToolNames, c \in RuleConfValues,
                        p \in {DESCRIPTION_MATCH, ResearchTopic, NoPattern}}

\* detectIntent(request): some candidate, or null
detectIntent(req) ==
  {NoOutcome} \cup {Candidate(t, c, NoPattern) : t \in ToolNames, c \in IntentConfValues}

\* extractParameters(request, pattern): the slots of the pattern
extractParameters(req, pattern) ==
  IF pattern = ResearchTopic /\ Len(req) >= 2 /\ req[1] = "research" /\ req[2] = SP
  THEN {<<"topic", SubSeq(req, 3, Len(req))>>}
  ELSE {}

\* extractContextParameters(request): the context span of the request
extractContextParameters(req) == {<<"context", trim(req)>>}

\* --------------------------------------------------- completion responses

Thought(t, n, k, tot) ==
  [thought |-> t, next_thought_needed |-> n,
   thought_number |-> k, total_thoughts |-> tot]

\* the message content of a completion: its text and what JSON.parse makes
\* of it (syntaxOk = FALSE: JSON.parse throws; otherwise the typeof of each
\* required field and the fields' values)
Content(raw, ok, tyT, tyN, tyK, tyTot, obj) ==
  [raw |-> raw, syntaxOk |-> ok, typeofThought |-> tyT,
   typeofNeeded |-> tyN, typeofNumber |-> tyK, typeofTotal |-> tyTot,
   obj |-> obj]

NoObj == Thought(<<>>, FALSE, 0, 0)

Stringify(obj) == <<"{", "thought", COLON, SP>> \o obj.thought \o <<"}">>

WellFormedContents ==
  {Content(Stringify(o), TRUE, "string", "boolean", "number", "number", o) :
     o \in {Thought(t, n, k[1], k[2]) :
               t \in {<<"prd-", "generator">>,
                      <<"Tool", COLON, SP, "PRD-", "Generator">>,
                      <<NL, SP, "research-", "manager", NL, "because">>,
                      <<"prd-", "generator", COLON, SP, "unsure">>,
                      <<"unsure">>,
                      <<>>},
               n \in BOOLEAN,
               \* the (thought_number, total_thoughts) pairs it may carry
               k \in {<<1, INITIAL_TOTAL_THOUGHTS>>,
                      <<2, INITIAL_TOTAL_THOUGHTS>>, <<2, 1>>}}
            \cup {Thought(<<"the", SP, "prd-", "generator">>, FALSE, 2, 5)}}

MalformedContents ==
  { \* not JSON at all
    Content(<<"prd-", "generator">>, FALSE, "undefined", "undefined",
            "undefined", "undefined", NoObj),
    Content(<<"so", SP, "unsure">>, FALSE, "undefined", "undefined",
            "undefined", "undefined", NoObj),
    \* JSON without next_thought_needed
    Content(Stringify(Thought(<<"prd-", "generator">>, TRUE, 1, 5)), TRUE,
            "string", "undefined", "number", "number",
            Thought(<<"prd-", "generator">>, TRUE, 1, 5)),
    \* JSON whose thought_number is a string
    Content(Stringify(Thought(<<"unsure">>, TRUE, 2, 5)), TRUE,
            "string", "boolean", "string", "number",
            Thought(<<"unsure">>, TRUE, 2, 5)),
    \* JSON without thought
    Content(<<"{", "}">>, TRUE, "undefined", "boolean", "number", "number",
            Thought(<<>>, TRUE, 1, 5)) }

\* what axios.post resolves or rejects with
Responses ==
  {[transport |-> "ok", hasChoices |-> TRUE, content |-> c] :
     c \in WellFormedContents \cup MalformedContents}
  \cup {[transport |-> "ok", hasChoices |-> FALSE]}
  \cup {[transport |-> "http_error", status |-> "500", data |-> "overloaded"],
        [transport |-> "http_error", status |-> "401", data |-> "{}"],
        [transport |-> "network_error", status |-> "undefined", data |-> "{}"]}

API_ERROR == "API error"
UNKNOWN_ERROR == "Unknown error"

Returned(t) == [threw |-> FALSE, thought |-> t]
Thrown(kind, status, data) ==
  [threw |-> TRUE, error |-> kind, status |-> status, data |-> data]

ValidThought(content) ==
  /\ content.syntaxOk
  /\ content.typeofThought = "string"
  /\ content.typeofNeeded = "boolean"
  /\ content.typeofNumber = "number"
  /\ content.typeofTotal = "number"

\* variant: the fallback thought asks for another thought
FallbackThought_Continues(content) == Thought(content.raw, TRUE, 1, 1)

\* the fallback thought built when parsing fails
FallbackThought(content) == Thought(content.raw, FALSE, 1, 1)

\* variant: a transport failure is answered with an empty final thought
getNextThought_SwallowsFailure(response) ==
  IF response.transport # "ok"
  THEN Returned(Thought(<<>>, FALSE, 1, 1))
  ELSE IF ~response.hasChoices
       THEN Thrown(UNKNOWN_ERROR, "undefined", "undefined")
       ELSE IF ValidThought(response.content)
            THEN Returned(response.content.obj)
            ELSE Returned(FallbackThought(response.content))

getNextThought(response) ==
  IF response.transport # "ok"
  THEN Thrown(API_ERROR, response.status, response.data)
  ELSE IF ~response.hasChoices
       THEN Thrown(UNKNOWN_ERROR, "undefined", "undefined")
       ELSE IF ValidThought(response.content)
            THEN Returned(response.content.obj)
            ELSE Returned(FallbackThought(response.content))

\* ------------------------------------------------------------------ state
VARIABLES
  pc,               \* position of hybridMatch / processWithSequentialThinking
  request,          \* the request being classified
  matchResult,      \* what matchRequest returned
  intentResult,     \* what detectIntent returned
  thoughts,         \* the engine's history
  currentThought,   \* the engine's current thought
  sequentialResult, \* the text the engine returned
  engineError,      \* the error the engine threw
  result,           \* what hybridMatch returned
  calls,            \* history: the stages called so far, in call order
  modelCalls,       \* history: number of axios.post calls issued
  received,         \* history: the responses the engine received, in order
  stage             \* history: the stage that produced the result

classifierVars ==
  <<pc, request, matchResult, intentResult, thoughts, currentThought,
    sequentialResult, engineError, result, calls, modelCalls, received, stage>>

VARIABLES
  explanation       \* what getMatchExplanation returned to processUserRequest

VARIABLES
  config            \* the OpenRouterConfig handed to every call

\* two invocations of processWithSequentialThinking that run concurrently
Runs == {"first", "second"}

VARIABLES
  runPc,            \* position of each invocation
  runTask,          \* userPrompt of each invocation
  histories,        \* the thoughts array each invocation works on
  runCurrent,       \* currentThought of each invocation
  runPrompts,       \* history: the requests each invocation posted, in order
  runAnswers,       \* history: the thoughts getNextThought returned to each
  runOutcome        \* what each invocation returned or threw

engineVars ==
  <<runPc, runTask, histories, runCurrent, runPrompts, runAnswers, runOutcome>>

VARIABLES
  genKind,          \* which generator runs: generatePRD or generateTaskList
  genPc,            \* position of the generator
  research,         \* state of each of the three research queries
  researchPosts,    \* history: number of requests the research queries posted
  settleOrder,      \* history: the queries in the order they settled
  genPrompt,        \* the prompt handed to processWithSequentialThinking
  generationCalls,  \* history: number of calls of processWithSequentialThinking
  genOutcome,       \* what processWithSequentialThinking returned or threw
  writeCalls,       \* history: number of calls of fs.writeFile
  artifact,         \* the file written
  genResponse       \* what the generator returned

generatorVars ==
  <<genKind, genPc, research, researchPosts, settleOrder, genPrompt,
    generationCalls, genOutcome, writeCalls, artifact, genResponse>>

VARIABLES
  lawStage,         \* the stage whose threshold is varied
  lawCandidate,     \* the matcher's output, held fixed
  lawThreshold,     \* the acceptance threshold
  lawDecision,      \* the stage's decision under lawThreshold
  lawPrevious       \* the stage's decision under the threshold before

lawVars == <<lawStage, lawCandidate, lawThreshold, lawDecision, lawPrevious>>

VARIABLES
  loopPc,           \* position of an invocation whose rounds are only counted
  loopCurrent,      \* its currentThought
  loopRounds,       \* thoughts.length, counted up to MaxLoopRounds
  loopLast          \* history: the kind of the last answer it received

loopVars == <<loopPc, loopCurrent, loopRounds, loopLast>>

VARIABLES
  hPc,              \* position of the process-request handler
  hRequest,         \* the request it was called with
  hMatch,           \* history: what hybridMatch returned or threw
  hProcessed,       \* what processUserRequest returned
  hParsed,          \* the ProcessedRequest the handler parsed
  hInvoked,         \* history: the executors invoked, in order
  hExecutor,        \* history: how the invoked executor settled
  hToolResult,      \* what executeProcessedRequest returned
  hResponse         \* what the handler returned or raised

handlerVars ==
  <<hPc, hRequest, hMatch, hProcessed, hParsed, hInvoked, hExecutor,
    hToolResult, hResponse>>

VARIABLES
  kitPc,            \* position of generateFullstackStarterKit
  kitInput,         \* its input
  kitResearch,      \* how the research queries settled, or that none was sent
  kitDirectory,     \* whether the output directory has been ensured
  kitCalls,         \* history: number of calls of processWithSequentialThinking
  kitOutput,        \* what the final generation call returned or threw
  kitFiles,         \* the files written
  kitResponse       \* what the generator returned

kitVars ==
  <<kitPc, kitInput, kitResearch, kitDirectory, kitCalls, kitOutput, kitFiles,
    kitResponse>>

\* the state of the components that only the later specifications move
sideVars == <<loopVars, handlerVars, kitVars>>

\* the state that the later specifications leave alone
coreVars ==
  <<classifierVars, explanation, config, engineVars, generatorVars, lawVars>>

\* the state of the other components, which hybridMatch does not touch
offStage ==
  <<explanation, config, engineVars, generatorVars, lawVars, sideVars>>

vars == <<classifierVars, offStage>>

\* server.ts, lines 24-29
ServerConfig ==
  [geminiModel |-> "google/gemini-2.0-flash-001",
   perplexityModel |-> "perplexity/sonar-deep-research"]


EngineIdle ==
  /\ runPc = [e \in Runs |-> "idle"]
  /\ runTask = [e \in Runs |-> <<>>]
  /\ histories = [e \in Runs |-> <<>>]
  /\ runCurrent = [e \in Runs |-> Thought(<<>>, TRUE, 1, INITIAL_TOTAL_THOUGHTS)]
  /\ runPrompts = [e \in Runs |-> <<>>]
  /\ runAnswers = [e \in Runs |-> <<>>]
  /\ runOutcome = [e \in Runs |-> NoOutcome]

QueryIds == 1..3

GeneratorIdle ==
  /\ genKind = "none"
  /\ genPc = "idle"
  /\ research = [i \in QueryIds |-> [status |-> "unsent"]]
  /\ researchPosts = 0
  /\ settleOrder = <<>>
  /\ genPrompt = <<>>
  /\ generationCalls = 0
  /\ genOutcome = NoOutcome
  /\ writeCalls = 0
  /\ artifact = NoOutcome
  /\ genResponse = NoOutcome

LawIdle ==
  /\ lawStage = "none"
  /\ lawCandidate = [isNull |-> TRUE]
  /\ lawThreshold = 0
  /\ lawDecision = "none"
  /\ lawPrevious = "none"

\* the later specifications' components other than `active` have not begun
SideIdle(active) ==
  /\ IF active = "loop"
     THEN TRUE
     ELSE /\ loopPc = "idle"
          /\ loopCurrent = Thought(<<>>, TRUE, 1, INITIAL_TOTAL_THOUGHTS)
          /\ loopRounds = 0
          /\ loopLast = "none"
  /\ IF active = "handler"
     THEN TRUE
     ELSE /\ hPc = "idle"
          /\ hRequest = <<>>
          /\ hMatch = NoOutcome
          /\ hProcessed = NoOutcome
          /\ hParsed = NoOutcome
          /\ hInvoked = <<>>
          /\ hExecutor = NoOutcome
          /\ hToolResult = NoOutcome
          /\ hResponse = NoOutcome
  /\ IF active = "starter-kit"
     THEN TRUE
     ELSE /\ kitPc = "idle"
          /\ kitInput = NoOutcome
          /\ kitResearch = "none"
          /\ kitDirectory = FALSE
          /\ kitCalls = 0
          /\ kitOutput = NoOutcome
          /\ kitFiles = {}
          /\ kitResponse = NoOutcome

OffStageIdle ==
  /\ explanation = NoOutcome
  /\ config = ServerConfig
  /\ EngineIdle
  /\ GeneratorIdle
  /\ LawIdle
  /\ SideIdle("none")

NoError == [threw |-> FALSE]

\* processWithSequentialThinking, lines 66-71
InitialThought == Thought(<<>>, TRUE, 1, INITIAL_TOTAL_THOUGHTS)

EnhancedMatchResult(t, c, p, params, method, confirm) ==
  [isNull |-> FALSE, toolName |-> t, confidence |-> c, matchedPattern |-> p,
   parameters |-> params, matchMethod |-> method,
   requiresConfirmation |-> confirm]

\* variant: strict comparison with the threshold
RuleAccepts_Strict(m) == ~m.isNull /\ m.confidence > MEDIUM_CONFIDENCE

\* hybridMatch, line 43
RuleAccepts(m) == ~m.isNull /\ m.confidence >= MEDIUM_CONFIDENCE

\* variant: the rule stage extracts context parameters
RuleParameters_Context(req, m) ==
  IF m.matchedPattern # NoPattern /\ m.matchedPattern # DESCRIPTION_MATCH
  THEN extractContextParameters(req)
  ELSE {}

\* hybridMatch, lines 45-60
RuleParameters(req, m) ==
  IF m.matchedPattern # NoPattern /\ m.matchedPattern # DESCRIPTION_MATCH
  THEN extractParameters(req, m.matchedPattern)
  ELSE {}

\* variant: confirmation decided against the acceptance threshold
RuleResult_ConfirmBelowMedium(req, m) ==
  EnhancedMatchResult(m.toolName, m.confidence, m.matchedPattern,
                      RuleParameters(req, m), "rule",
                      m.confidence < MEDIUM_CONFIDENCE)

RuleResult(req, m) ==
  EnhancedMatchResult(m.toolName, m.confidence, m.matchedPattern,
                      RuleParameters(req, m), "rule",
                      m.confidence < HIGH_CONFIDENCE)

\* variant: the intent stage uses the rule stage's threshold
IntentAccepts_Medium(m) == ~m.isNull /\ m.confidence >= MEDIUM_CONFIDENCE

\* hybridMatch, line 66
IntentAccepts(m) == ~m.isNull /\ m.confidence >= LOW_CONFIDENCE

\* hybridMatch, lines 68-82
IntentResult(req, m) ==
  EnhancedMatchResult(m.toolName, m.confidence, m.matchedPattern,
                      extractContextParameters(req), "intent",
                      m.confidence < HIGH_CONFIDENCE)

\* variant: an accepted sequential match marked with the fallback pattern
SequentialResult_FallbackPattern(req, toolName) ==
  EnhancedMatchResult(toolName, SEQUENTIAL_CONFIDENCE, FALLBACK,
                      extractContextParameters(req), "sequential", TRUE)

\* hybridMatch, lines 101-120
SequentialResult(req, toolName) ==
  EnhancedMatchResult(toolName, SEQUENTIAL_CONFIDENCE, SEQUENTIAL_THINKING,
                      extractContextParameters(req), "sequential", TRUE)

\* variant: the default match carries the sequential confidence
DefaultResult_SequentialConfidence(req) ==
  EnhancedMatchResult(ResearchManager, SEQUENTIAL_CONFIDENCE, FALLBACK,
                      {<<"query", req>>}, "sequential", TRUE)

\* hybridMatch, lines 128-135
DefaultResult(req) ==
  EnhancedMatchResult(ResearchManager, FALLBACK_CONFIDENCE, FALLBACK,
                      {<<"query", req>>}, "sequential", TRUE)

\* the rationale returned by getMatchExplanation: which sentence it is, the
\* tool it names, the pattern it quotes and the percentage it states
Explanation(kind, toolName, pattern, percent) ==
  [isNull |-> FALSE, kind |-> kind, toolName |-> toolName,
   pattern |-> pattern, percent |-> percent]

\* variant: the default match is looked for under a method of its own
getMatchExplanation_ByMethodOnly(match) ==
  CASE match.matchMethod = "rule" ->
         IF match.matchedPattern = DESCRIPTION_MATCH
         THEN Explanation("description", match.toolName, "", 0)
         ELSE Explanation("pattern", match.toolName, match.matchedPattern, 0)
    [] match.matchMethod = "intent" ->
         Explanation("intent", match.toolName, "", match.confidence)
    [] match.matchMethod = "sequential" ->
         Explanation("analysis", match.toolName, "", 0)
    [] match.matchMethod = "fallback" ->
         Explanation("defaulting", match.toolName, "", 0)
    [] OTHER -> Explanation("generic", match.toolName, "", 0)

\* getMatchExplanation, lines 166-188
getMatchExplanation(match) ==
  CASE match.matchMethod = "rule" ->
         IF match.matchedPattern = DESCRIPTION_MATCH
         THEN Explanation("description", match.toolName, "", 0)
         ELSE Explanation("pattern", match.toolName, match.matchedPattern, 0)
    [] match.matchMethod = "intent" ->
         Explanation("intent", match.toolName, "", match.confidence)
    [] match.matchMethod = "sequential" ->
         IF match.matchedPattern = FALLBACK
         THEN Explanation("defaulting", match.toolName, "", 0)
         ELSE Explanation("analysis", match.toolName, "", 0)
    [] OTHER -> Explanation("generic", match.toolName, "", 0)

\* variant: the error of the engine is not caught
CatchSequentialError_Rethrow == "raised"

\* hybridMatch, lines 122-124: the catch logs and falls through to the default
CatchSequentialError == "default"

Init ==
  /\ pc = "rule"
  /\ request \in Requests
  /\ matchResult = NoOutcome
  /\ intentResult = NoOutcome
  /\ thoughts = <<>>
  /\ currentThought = InitialThought
  /\ sequentialResult = <<>>
  /\ engineError = NoError
  /\ result = NoOutcome
  /\ calls = <<>>
  /\ modelCalls = 0
  /\ received = <<>>
  /\ stage = "none"
  /\ OffStageIdle

\* variant: the rule stage does not return on acceptance
RuleStage_FallsThrough ==
  /\ pc = "rule"
  /\ \E m \in matchRequest(request) :
       /\ matchResult' = m
       /\ IF RuleAccepts(m)
          THEN result' = RuleResult(request, m) /\ stage' = "rule"
          ELSE UNCHANGED <<result, stage>>
  /\ pc' = "intent"
  /\ calls' = Append(calls, "matchRequest")
  /\ UNCHANGED <<request, intentResult, thoughts, currentThought,
                 sequentialResult, engineError, modelCalls, received>>
  /\ UNCHANGED offStage

\* hybridMatch, step 1 (lines 40-61)
RuleStage ==
  /\ pc = "rule"
  /\ \E m \in matchRequest(request) :
       /\ matchResult' = m
       /\ IF RuleAccepts(m)
          THEN result' = RuleResult(request, m) /\ stage' = "rule"
               /\ pc' = "done"
          ELSE UNCHANGED <<result, stage>> /\ pc' = "intent"
  /\ calls' = Append(calls, "matchRequest")
  /\ UNCHANGED <<request, intentResult, thoughts, currentThought,
                 sequentialResult, engineError, modelCalls, received>>
  /\ UNCHANGED offStage

\* hybridMatch, step 2 (lines 63-83)
IntentStage ==
  /\ pc = "intent"
  /\ \E m \in detectIntent(request) :
       /\ intentResult' = m
       /\ IF IntentAccepts(m)
          THEN result' = IntentResult(request, m) /\ stage' = "intent"
               /\ pc' = "done"
          ELSE UNCHANGED <<result, stage>> /\ pc' = "sequential"
  /\ calls' = Append(calls, "detectIntent")
  /\ UNCHANGED <<request, matchResult, thoughts, currentThought,
                 sequentialResult, engineError, modelCalls, received>>
  /\ UNCHANGED offStage

\* hybridMatch, step 3 (lines 86-92) entering processWithSequentialThinking
\* (lines 65-71)
StartThinking ==
  /\ pc = "sequential"
  /\ thoughts' = <<>>
  /\ currentThought' = InitialThought
  /\ calls' = Append(calls, "processWithSequentialThinking")
  /\ pc' = "loop"
  /\ UNCHANGED <<request, matchResult, intentResult, sequentialResult,
                 engineError, result, modelCalls, received, stage>>
  /\ UNCHANGED offStage

\* variant: the loop also stops once the estimate is reached
RequestThought_StopsAtEstimate ==
  /\ pc = "loop"
  /\ currentThought.next_thought_needed
  /\ currentThought.thought_number < currentThought.total_thoughts
  /\ modelCalls' = modelCalls + 1
  /\ pc' = "await"
  /\ UNCHANGED <<request, matchResult, intentResult, thoughts, currentThought,
                 sequentialResult, engineError, result, calls, received,
                 stage>>
  /\ UNCHANGED offStage

\* variant: the completion is requested without awaiting it
RequestThought_NoAwait ==
  /\ pc = "loop"
  /\ currentThought.next_thought_needed
  /\ modelCalls' = modelCalls + 1
  /\ pc' = "loop"
  /\ UNCHANGED <<request, matchResult, intentResult, thoughts, currentThought,
                 sequentialResult, engineError, result, calls, received,
                 stage>>
  /\ UNCHANGED offStage

\* processWithSequentialThinking, lines 87-100: the loop test holds and the
\* next completion is requested
RequestThought ==
  /\ pc = "loop"
  /\ currentThought.next_thought_needed
  /\ modelCalls' = modelCalls + 1
  /\ pc' = "await"
  /\ UNCHANGED <<request, matchResult, intentResult, thoughts, currentThought,
                 sequentialResult, engineError, result, calls, received,
                 stage>>
  /\ UNCHANGED offStage

\* the completion resolves or rejects: getNextThought (lines 147-186), then
\* lines 103-104 of the loop
ReceiveThought ==
  /\ pc = "await"
  /\ \E response \in Responses :
       LET next == getNextThought(response) IN
         /\ received' = Append(received, response)
         /\ IF next.threw
            THEN /\ engineError' = next
                 /\ pc' = CatchSequentialError
                 /\ UNCHANGED <<thoughts, currentThought>>
            ELSE /\ (next.thought.next_thought_needed
                       => Len(thoughts) + 1 < MaxRounds)
                 /\ thoughts' = Append(thoughts, next.thought)
                 /\ currentThought' = next.thought
                 /\ pc' = "loop"
                 /\ UNCHANGED engineError
  /\ UNCHANGED <<request, matchResult, intentResult, sequentialResult,
                 result, calls, modelCalls, stage>>
  /\ UNCHANGED offStage

\* processWithSequentialThinking, lines 87 and 108: the loop test fails and
\* the final thought is returned
ReturnThought ==
  /\ pc = "loop"
  /\ ~currentThought.next_thought_needed
  /\ sequentialResult' = currentThought.thought
  /\ pc' = "parse"
  /\ UNCHANGED <<request, matchResult, intentResult, thoughts, currentThought,
                 engineError, result, calls, modelCalls, received, stage>>
  /\ UNCHANGED offStage

\* hybridMatch, lines 94-121
ParseToolName ==
  /\ pc = "parse"
  /\ LET toolName == ToolNameOf(sequentialResult) IN
       IF LooksLikeTool(toolName)
       THEN result' = SequentialResult(request, toolName)
            /\ stage' = "sequential" /\ pc' = "done"
       ELSE UNCHANGED <<result, stage>> /\ pc' = "default"
  /\ UNCHANGED <<request, matchResult, intentResult, thoughts, currentThought,
                 sequentialResult, engineError, calls, modelCalls, received>>
  /\ UNCHANGED offStage

\* hybridMatch, lines 126-135
DefaultFallback ==
  /\ pc = "default"
  /\ result' = DefaultResult(request)
  /\ stage' = "default"
  /\ pc' = "done"
  /\ UNCHANGED <<request, matchResult, intentResult, thoughts, currentThought,
                 sequentialResult, engineError, calls, modelCalls, received>>
  /\ UNCHANGED offStage



\* processUserRequest, lines 31-32: hybridMatch has returned and the match is
\* explained
ExplainMatch ==
  /\ pc = "done"
  /\ explanation.isNull
  /\ explanation' = getMatchExplanation(result)
  /\ UNCHANGED <<classifierVars, config, engineVars, generatorVars, lawVars,
                 sideVars>>

Next ==
  \/ RuleStage
  \/ IntentStage
  \/ StartThinking
  \/ RequestThought
  \/ ReceiveThought
  \/ ReturnThought
  \/ ParseToolName
  \/ DefaultFallback
  \/ ExplainMatch

Spec == Init /\ [][Next]_vars

\* ------------------------------------------------------------- properties

Last(q) == q[Len(q)]

\* C1: hybridMatch never raises: it is always at a position of its cascade
\* from which it steps on, or it has returned; what it returns is a non-null
\* result whose confidence lies in [0,1], whatever the matchers and the
\* completion model answer.
C1_Totality ==
  /\ pc # "raised"
  /\ pc \in {"rule", "intent", "sequential", "loop", "await", "parse",
             "default", "done"}
  /\ (pc = "done" =>
        /\ ~result.isNull
        /\ result.confidence >= 0 /\ result.confidence <= 100)

C1_Witness ==
  /\ pc = "done"
  /\ engineError.threw
  /\ ~result.isNull
  /\ result.confidence = FALLBACK_CONFIDENCE

\* C2: the stages are called in the order rule, intent, sequential; a stage is
\* called only after every earlier stage declined, and an accepted rule
\* candidate causes no call of the Intent Detector, of the engine or of the
\* model.
C2_StageOrder ==
  /\ Len(calls) <= 3
  /\ calls = SubSeq(<<"matchRequest", "detectIntent", "processWithSequentialThinking">>, 1, Len(calls))
  /\ (Len(calls) >= 2 =>
        matchResult.isNull \/ matchResult.confidence < MEDIUM_CONFIDENCE)
  /\ (Len(calls) >= 3 =>
        intentResult.isNull \/ intentResult.confidence < LOW_CONFIDENCE)
  /\ (modelCalls > 0 => Len(calls) = 3)
  /\ (stage = "rule" => calls = <<"matchRequest">> /\ modelCalls = 0)
  /\ (stage = "intent" =>
        calls = <<"matchRequest", "detectIntent">> /\ modelCalls = 0)
  /\ (~matchResult.isNull /\ matchResult.confidence >= MEDIUM_CONFIDENCE =>
        calls = <<"matchRequest">> /\ modelCalls = 0 /\ stage = "rule")

C2_Witness ==
  /\ pc = "done"
  /\ matchResult = Candidate(ResearchManager, 100, ResearchTopic)
  /\ result.matchedPattern = ResearchTopic
  /\ calls = <<"matchRequest">>

\* C3: a returned result requires confirmation whenever it comes from the
\* sequential stage or from the default fallback, and whenever its
\* confidence is below 0.8.
C3_Confirmation ==
  pc = "done" =>
    ((stage \in {"sequential", "default"}
        \/ result.confidence < HIGH_CONFIDENCE)
       => result.requiresConfirmation)

C3_Witness ==
  /\ pc = "done"
  /\ stage = "rule"
  /\ result.confidence = 79
  /\ result.requiresConfirmation

\* C4: when the engine fails, hybridMatch does not raise and returns the
\* default match: research-manager, confidence 0.2, confirmation required,
\* the whole request as the single parameter.
C4_EngineFailure ==
  engineError.threw =>
    /\ pc \in {"default", "done"}
    /\ (matchResult.isNull \/ matchResult.confidence < MEDIUM_CONFIDENCE)
    /\ (intentResult.isNull \/ intentResult.confidence < LOW_CONFIDENCE)
    /\ (pc = "done" =>
          /\ result.toolName = ResearchManager
          /\ result.confidence = 20
          /\ result.requiresConfirmation
          /\ result.parameters = {<<"query", request>>})

C4_Witness ==
  /\ pc = "done"
  /\ engineError.threw
  /\ engineError.error = API_ERROR
  /\ Len(thoughts) = 1
  /\ result.parameters = {<<"query", request>>}

\* C5: the rule stage accepts exactly the non-null candidates of confidence
\* >= 0.6; the result then carries the candidate's tool, confidence and
\* pattern with method rule and requiresConfirmation = (confidence < 0.8); a
\* candidate below 0.6 leaves no trace in the result.
C5_RuleStage ==
  pc # "rule" =>
    /\ (stage = "rule" <=>
          (~matchResult.isNull /\ matchResult.confidence >= MEDIUM_CONFIDENCE))
    /\ (stage = "rule" =>
          /\ pc = "done"
          /\ result.matchMethod = "rule"
          /\ result.toolName = matchResult.toolName
          /\ result.confidence = matchResult.confidence
          /\ result.matchedPattern = matchResult.matchedPattern
          /\ (result.requiresConfirmation
                <=> matchResult.confidence < HIGH_CONFIDENCE))
    /\ (pc = "done" /\ stage # "rule" =>
          /\ result.matchMethod # "rule"
          /\ \/ stage = "intent" /\ result.toolName = intentResult.toolName
                /\ result.confidence = intentResult.confidence
             \/ stage = "sequential" /\ result.confidence = SEQUENTIAL_CONFIDENCE
                /\ result.matchedPattern = SEQUENTIAL_THINKING
             \/ stage = "default" /\ result.toolName = ResearchManager
                /\ result.confidence = FALLBACK_CONFIDENCE
                /\ result.matchedPattern = FALLBACK)

C5_Witness ==
  /\ pc = "done"
  /\ stage = "rule"
  /\ matchResult.confidence = MEDIUM_CONFIDENCE
  /\ result.requiresConfirmation

\* C6: after the rule stage declined, the intent stage accepts exactly the
\* non-null candidates of confidence >= 0.4; the result then carries the
\* candidate's tool and confidence with method intent, requiresConfirmation =
\* (confidence < 0.8) and the parameters of context extraction.
C6_IntentStage ==
  pc \notin {"rule", "intent"} /\ Len(calls) >= 2 =>
    /\ (stage = "intent" <=>
          (~intentResult.isNull /\ intentResult.confidence >= LOW_CONFIDENCE))
    /\ (stage = "intent" =>
          /\ pc = "done"
          /\ result.matchMethod = "intent"
          /\ result.toolName = intentResult.toolName
          /\ result.confidence = intentResult.confidence
          /\ (result.requiresConfirmation
                <=> intentResult.confidence < HIGH_CONFIDENCE)
          /\ result.parameters = extractContextParameters(request))

C6_Witness ==
  /\ pc = "done"
  /\ stage = "intent"
  /\ intentResult.confidence = LOW_CONFIDENCE
  /\ ~matchResult.isNull
  /\ result.requiresConfirmation

\* C7 (as stated): the token is the first line of the lower-cased engine
\* text with the label prefix removed; the sequential stage accepts iff the
\* token contains "generator" or "manager", the result then has method
\* sequential, the token as toolId, confidence 0.5 and requires
\* confirmation; otherwise the default fallback (confidence 0.2) is returned.
C7_Original ==
  pc = "done" /\ Len(calls) = 3 /\ ~engineError.threw =>
    LET token == stripLabel(firstLine(toLowerCase(sequentialResult))) IN
      IF includes(token, "generator") \/ includes(token, "manager")
      THEN /\ stage = "sequential"
           /\ result.matchMethod = "sequential"
           /\ result.toolName = token
           /\ result.confidence = 50
           /\ result.requiresConfirmation
      ELSE /\ stage = "default"
           /\ result.confidence = 20

\* C7 (amended): the same, the token being taken from the engine text after
\* its surrounding white space has been trimmed.
C7_SequentialStage ==
  /\ pc # "raised"
  /\ pc = "done" /\ Len(calls) = 3 /\ ~engineError.threw =>
       LET token ==
             stripLabel(firstLine(trim(toLowerCase(sequentialResult)))) IN
         IF includes(token, "generator") \/ includes(token, "manager")
         THEN /\ stage = "sequential"
              /\ result.matchMethod = "sequential"
              /\ result.toolName = token
              /\ result.confidence = 50
              /\ result.requiresConfirmation
         ELSE /\ stage = "default"
              /\ result.confidence = 20

C7_Witness ==
  /\ pc = "done"
  /\ stage = "sequential"
  /\ sequentialResult = <<NL, SP, "research-", "manager", NL, "because">>
  /\ result.toolName = ResearchManager
  /\ result.confidence = SEQUENTIAL_CONFIDENCE

\* C8 (as stated): the default-fallback result carries method = fallback.
C8_Original ==
  pc = "done" /\ stage = "default" => result.matchMethod = "fallback"

\* C8 (amended): the default-fallback result carries method = sequential, as
\* an accepted sequential match does; the two differ in matchedPattern,
\* which is "fallback" for the default and "sequential_thinking" for an
\* accepted sequential match.
C8_MethodAndPattern ==
  pc = "done" =>
    /\ (stage = "default" =>
          /\ result.matchMethod = "sequential"
          /\ result.matchedPattern = "fallback")
    /\ (stage = "sequential" =>
          /\ result.matchMethod = "sequential"
          /\ result.matchedPattern = "sequential_thinking")
    /\ (stage = "rule" => result.matchMethod = "rule")
    /\ (stage = "intent" => result.matchMethod = "intent")

C8_Witness ==
  /\ pc = "done"
  /\ stage = "default"
  /\ ~engineError.threw
  /\ result.matchMethod = "sequential"
  /\ result.matchedPattern = FALLBACK

\* C9: after a round the engine requests another completion iff that round
\* has next_thought_needed = true, and returns iff it has
\* next_thought_needed = false, whatever thought_number, total_thoughts and
\* the number of rounds made; it returns the thought of the last round; a
\* first round with next_thought_needed = false means exactly one call.
C9_LoopTermination ==
  /\ (pc = "loop" =>
        /\ (ENABLED RequestThought <=> currentThought.next_thought_needed)
        /\ (ENABLED ReturnThought <=> ~currentThought.next_thought_needed))
  /\ modelCalls = Len(received) + (IF pc = "await" THEN 1 ELSE 0)
  /\ Len(thoughts) = Len(received) - (IF engineError.threw THEN 1 ELSE 0)
  /\ (\A i \in 1..(Len(thoughts) - 1) : thoughts[i].next_thought_needed)
  /\ (thoughts # <<>> /\ ~Last(thoughts).next_thought_needed =>
        modelCalls = Len(thoughts))
  /\ (thoughts # <<>> /\ ~thoughts[1].next_thought_needed => modelCalls = 1)
  /\ (pc \in {"parse", "default", "done"} /\ Len(calls) = 3
        /\ ~engineError.threw =>
        /\ thoughts # <<>>
        /\ ~Last(thoughts).next_thought_needed
        /\ sequentialResult = Last(thoughts).thought)

C9_Witness ==
  /\ pc = "done"
  /\ Len(thoughts) = 2
  /\ thoughts[1].thought_number >= thoughts[1].total_thoughts
  /\ thoughts[1].thought # thoughts[2].thought
  /\ sequentialResult = thoughts[2].thought
  /\ modelCalls = 2

\* C10: a delivered content that is not valid JSON, or lacks a required field
\* of the right type, is the last response of the invocation, in whichever
\* round it comes: a round with the raw content as thought and
\* next_thought_needed = false is appended, no further call is made, nothing
\* is thrown, and the engine returns the raw content.
C10_MalformedRecovered ==
  \A i \in 1..Len(received) :
    LET r == received[i] IN
      (/\ r.transport = "ok"
       /\ r.hasChoices
       /\ ~(/\ r.content.syntaxOk
            /\ r.content.typeofThought = "string"
            /\ r.content.typeofNeeded = "boolean"
            /\ r.content.typeofNumber = "number"
            /\ r.content.typeofTotal = "number"))
      => /\ i = Len(received)
         /\ modelCalls = i
         /\ ~engineError.threw
         /\ Len(thoughts) = i
         /\ thoughts[i].thought = r.content.raw
         /\ ~thoughts[i].next_thought_needed
         /\ (pc \in {"parse", "default", "done"} =>
               sequentialResult = r.content.raw)

C10_Witness ==
  /\ pc = "done"
  /\ Len(received) = 2
  /\ received[2].transport = "ok"
  /\ received[2].hasChoices
  /\ received[2].content.syntaxOk
  /\ received[2].content.typeofNeeded = "undefined"
  /\ sequentialResult = received[2].content.raw
  /\ modelCalls = 2

\* ------------------------------------- the reasoning engine, two invocations
\* no classification is running
ClassifierIdle ==
  /\ pc = "idle"
  /\ request = <<>>
  /\ matchResult = NoOutcome
  /\ intentResult = NoOutcome
  /\ thoughts = <<>>
  /\ currentThought = InitialThought
  /\ sequentialResult = <<>>
  /\ engineError = NoError
  /\ result = NoOutcome
  /\ calls = <<>>
  /\ modelCalls = 0
  /\ received = <<>>
  /\ stage = "none"

\* optional fields of SequentialThought, lines 13-16
Revision(t, revised) ==
  t @@ [is_revision |-> TRUE, revises_thought |-> revised]

IsRevision(t) == "is_revision" \in DOMAIN t /\ t.is_revision

EngineResponses ==
  {[transport |-> "ok", hasChoices |-> TRUE,
    content |-> Content(Stringify(o), TRUE, "string", "boolean", "number",
                        "number", o)] :
     o \in {Thought(<<"plan">>, TRUE, 1, 5),
            Revision(Thought(<<"revise">>, TRUE, 2, 5), 1),
            Thought(<<"branch">>, FALSE, 2, 5)
              @@ [branch_from_thought |-> 1, branch_id |-> "b1"],
            Thought(<<"research-", "manager">>, FALSE, 2, 5),
            Revision(Thought(<<"prd-", "generator">>, FALSE, 3, 5), 1)}}
  \cup {[transport |-> "ok", hasChoices |-> TRUE,
         content |-> Content(<<"so", SP, "unsure">>, FALSE, "undefined",
                             "undefined", "undefined", "undefined", NoObj)],
        [transport |-> "ok", hasChoices |-> FALSE],
        [transport |-> "http_error", status |-> "500", data |-> "overloaded"]}

\* variant: only the latest round is put into the context
JoinThoughts_Latest(ths) ==
  LET t == ths[Len(ths)] IN
    <<"[Thought ", ToString(t.thought_number), "/",
      ToString(t.total_thoughts), "]: ">> \o t.thought

\* getThoughtContext, lines 82-83: the rounds joined by an empty line
RECURSIVE JoinThoughts(_)
JoinThoughts(ths) ==
  IF ths = <<>>
  THEN <<>>
  ELSE LET t == ths[1]
           line == <<"[Thought ", ToString(t.thought_number), "/",
                     ToString(t.total_thoughts), "]: ">> \o t.thought
       IN IF Len(ths) = 1
          THEN line
          ELSE line \o <<NL, NL>> \o JoinThoughts(Tail(ths))

\* getThoughtContext, lines 79-84
getThoughtContext(ths) ==
  IF Len(ths) = 0
  THEN <<>>
  ELSE <<"Previous thoughts:", NL>> \o JoinThoughts(ths)

\* processWithSequentialThinking, lines 89-94
BuildPrompt(ths, userPrompt) ==
  LET thoughtContext == getThoughtContext(ths) IN
    IF thoughtContext # <<>>
    THEN thoughtContext \o <<NL, NL, "Task: ">> \o userPrompt
           \o <<NL, NL, "Continue with the next thought:">>
    ELSE <<"Task: ">> \o userPrompt \o <<NL, NL, "Provide your first thought:">>

\* variant: the thoughts array is declared at module level
HistorySlot_ModuleLevel(e) == "first"

\* processWithSequentialThinking, line 65: thoughts is a local of the call
HistorySlot(e) == e

History(e) == histories[HistorySlot(e)]

\* variant: a revision replaces the round it revises
AppendRound_RewritesRevised(ths, t) ==
  IF IsRevision(t) /\ t.revises_thought \in 1..Len(ths)
  THEN [ths EXCEPT ![t.revises_thought] = t]
  ELSE Append(ths, t)

\* processWithSequentialThinking, line 103
AppendRound(ths, t) == Append(ths, t)

\* processWithSequentialThinking, lines 60-77
RunInvoke(e) ==
  /\ runPc[e] = "idle"
  /\ \E task \in {<<"task-a">>, <<"task-b">>} : runTask' = [runTask EXCEPT ![e] = task]
  /\ histories' = [histories EXCEPT ![HistorySlot(e)] = <<>>]
  /\ runCurrent' = [runCurrent EXCEPT ![e] = InitialThought]
  /\ runPc' = [runPc EXCEPT ![e] = "loop"]
  /\ UNCHANGED <<runPrompts, runAnswers, runOutcome>>
  /\ UNCHANGED <<classifierVars, explanation, config, generatorVars, lawVars,
                 sideVars>>

\* processWithSequentialThinking, lines 87-100, and getNextThought, lines
\* 119-145: the prompt is built and posted
RunRequestThought(e) ==
  /\ runPc[e] = "loop"
  /\ runCurrent[e].next_thought_needed
  /\ runPrompts' =
       [runPrompts EXCEPT ![e] =
          Append(@, [model |-> config.geminiModel,
                     prompt |-> BuildPrompt(History(e), runTask[e])])]
  /\ runPc' = [runPc EXCEPT ![e] = "await"]
  /\ UNCHANGED <<runTask, histories, runCurrent, runAnswers, runOutcome>>
  /\ UNCHANGED <<classifierVars, explanation, config, generatorVars, lawVars,
                 sideVars>>

\* getNextThought, lines 147-186, then lines 103-104 of the loop
RunReceiveThought(e) ==
  /\ runPc[e] = "await"
  /\ \E response \in EngineResponses :
       LET next == getNextThought(response) IN
         IF next.threw
         THEN /\ runOutcome' = [runOutcome EXCEPT ![e] = next]
              /\ runPc' = [runPc EXCEPT ![e] = "failed"]
              /\ UNCHANGED <<histories, runCurrent, runAnswers>>
         ELSE /\ (next.thought.next_thought_needed
                    => Len(History(e)) + 1 < MaxRunRounds)
              /\ histories' =
                   [histories EXCEPT ![HistorySlot(e)] =
                      AppendRound(@, next.thought)]
              /\ runAnswers' = [runAnswers EXCEPT ![e] = Append(@, next.thought)]
              /\ runCurrent' = [runCurrent EXCEPT ![e] = next.thought]
              /\ runPc' = [runPc EXCEPT ![e] = "loop"]
              /\ UNCHANGED runOutcome
  /\ UNCHANGED <<runTask, runPrompts>>
  /\ UNCHANGED <<classifierVars, explanation, config, generatorVars, lawVars,
                 sideVars>>

\* processWithSequentialThinking, lines 87 and 108
RunReturnThought(e) ==
  /\ runPc[e] = "loop"
  /\ ~runCurrent[e].next_thought_needed
  /\ runOutcome' =
       [runOutcome EXCEPT ![e] =
          [isNull |-> FALSE, threw |-> FALSE, text |-> runCurrent[e].thought]]
  /\ runPc' = [runPc EXCEPT ![e] = "returned"]
  /\ UNCHANGED <<runTask, histories, runCurrent, runPrompts, runAnswers>>
  /\ UNCHANGED <<classifierVars, explanation, config, generatorVars, lawVars,
                 sideVars>>

EngineInit ==
  /\ ClassifierIdle
  /\ explanation = NoOutcome
  /\ config \in {ServerConfig, [ServerConfig EXCEPT !.geminiModel = ""]}
  /\ EngineIdle
  /\ GeneratorIdle
  /\ LawIdle
  /\ SideIdle("none")

EngineNext ==
  \E e \in Runs :
    \/ RunInvoke(e)
    \/ RunRequestThought(e)
    \/ RunReceiveThought(e)
    \/ RunReturnThought(e)

EngineSpec == EngineInit /\ [][EngineNext]_vars

\* ------------------------------------------- the acceptance threshold law

\* variant: a candidate is accepted when its confidence is within the threshold
StageAccepts_Below(m, threshold) == ~m.isNull /\ m.confidence <= threshold

\* hybridMatch, lines 43 and 66, with the stage's threshold as a parameter
StageAccepts(m, threshold) == ~m.isNull /\ m.confidence >= threshold

StageDecision(m, threshold) ==
  IF StageAccepts(m, threshold) THEN "accepted" ELSE "rejected"

LawInit ==
  /\ ClassifierIdle
  /\ explanation = NoOutcome
  /\ config = ServerConfig
  /\ EngineIdle
  /\ GeneratorIdle
  /\ SideIdle("none")
  /\ lawStage \in {"rule", "intent"}
  /\ lawCandidate \in (IF lawStage = "rule"
                       THEN UNION {matchRequest(r) : r \in Requests}
                       ELSE UNION {detectIntent(r) : r \in Requests})
  /\ lawThreshold \in (RuleConfValues \cup IntentConfValues)
  /\ lawDecision = StageDecision(lawCandidate, lawThreshold)
  /\ lawPrevious = "none"

\* the stage decides again on the same matcher output under a lower threshold
LowerThreshold ==
  /\ \E t \in (RuleConfValues \cup IntentConfValues) :
       /\ t < lawThreshold
       /\ lawThreshold' = t
       /\ lawDecision' = StageDecision(lawCandidate, t)
  /\ lawPrevious' = lawDecision
  /\ UNCHANGED <<lawStage, lawCandidate>>
  /\ UNCHANGED <<classifierVars, explanation, config, engineVars, generatorVars,
               sideVars>>

LawNext == LowerThreshold

LawSpec == LawInit /\ [][LawNext]_vars

\* ------------------------------------------ the document generators

productDescription == <<"water", SP, "tracker">>

\* generatePRD, line 135; generateTaskList, line 135
queryLabels(kind) ==
  IF kind = "prd"
  THEN <<"Market Analysis", "User Needs & Expectations",
         "Industry Standards & Best Practices">>
  ELSE <<"Development Lifecycle & Milestones",
         "Task Estimation & Dependencies",
         "Team Structure & Work Breakdown">>

RESEARCH_FAILED == "*Research on this topic failed.*"

Rejected(reason) == [status |-> "rejected", reason |-> reason]

RESEARCH_ERROR == "Perplexity research failed for query"

\* performResearchQuery, lines 39-61: the promise settles
ResearchOutcome(response) ==
  IF response.transport # "ok"
  THEN Rejected(RESEARCH_ERROR)
  ELSE IF response.content = <<>>
       THEN Rejected(RESEARCH_ERROR)
       ELSE [status |-> "fulfilled", value |-> (trim(response.content))]

Settled(r) == r.status \in {"fulfilled", "rejected"}

\* variant: a topic whose research failed gets no section
ResearchSection_SkipFailed(label, r) ==
  IF r.status = "fulfilled"
  THEN <<"### ", label, COLON, NL>> \o trim(r.value) \o <<NL, NL>>
  ELSE <<>>

\* generatePRD, lines 136-141: the section of one topic
ResearchSection(label, r) ==
  IF r.status = "fulfilled"
  THEN <<"### ", label, COLON, NL>> \o trim(r.value) \o <<NL, NL>>
  ELSE <<"### ", label, COLON, NL, RESEARCH_FAILED, NL, NL>>

\* researchResults.forEach, lines 134-142: the sections from index i on
RECURSIVE SectionsFrom(_, _, _)
SectionsFrom(labels, results, i) ==
  IF i > Len(labels)
  THEN <<>>
  ELSE ResearchSection(labels[i], results[i])
         \o SectionsFrom(labels, results, i + 1)

\* generatePRD, lines 131-142
ResearchContext(kind, results) ==
  <<"## Pre-Generation Research Context (From Perplexity Sonar Deep Research):",
    NL, NL>> \o SectionsFrom(queryLabels(kind), results, 1)

\* generatePRD, line 151; generateTaskList, line 151
mainGenerationPrompt(kind, researchContext) ==
  IF kind = "prd"
  THEN <<"Create a comprehensive PRD for the following product:", NL, NL>>
         \o productDescription \o <<NL, NL>> \o researchContext
  ELSE <<"Create a detailed task list for the following product:", NL, NL>>
         \o productDescription
         \o <<NL, NL, "Based on these user stories:", NL, NL>>
         \o <<"as", SP, "a", SP, "user">> \o <<NL, NL>> \o researchContext

\* what processWithSequentialThinking returns or throws in the generator
GenerationOutcomes ==
  {[threw |-> FALSE, text |-> <<"# ", "Water", NL, "body">>],
   [threw |-> FALSE, text |-> <<"body">>],
   Thrown(API_ERROR, "500", "overloaded")}

\* prdResult.match(/^#\s+(.+)$/m): the rest of the first line that starts
\* with "# " and goes on, or nothing
RECURSIVE titleMatch(_)
titleMatch(text) ==
  IF text = <<>>
  THEN <<>>
  ELSE LET line == firstLine(text) IN
         IF Len(line) >= 2 /\ line[1] = "# "
         THEN Tail(line)
         ELSE IF Len(line) = Len(text)
              THEN <<>>
              ELSE titleMatch(SubSeq(text, Len(line) + 2, Len(text)))

TITLE_LENGTH == 50

\* s.substring(0, n) of a text shorter than n characters per chunk count
substring(text, n) == SubSeq(text, 1, Min({n, Len(text)}))

\* generatePRD, lines 165-167; generateTaskList, line 165
formattedResult(kind, text) ==
  LET title == IF kind = "prd"
               THEN IF titleMatch(text) # <<>>
                    THEN titleMatch(text)
                    ELSE <<"PRD: ">> \o substring(productDescription, TITLE_LENGTH)
                           \o <<"...">>
               ELSE <<"Task List: ">>
                      \o substring(productDescription, TITLE_LENGTH) \o <<"...">>
  IN <<"# ">> \o title \o <<NL, NL>> \o text
       \o <<NL, NL, "_Generated: ", "date", "_">>

\* generatePRD, lines 180-190: the response built by the outer catch
ErrorResponse(kind, message) ==
  [isNull |-> FALSE,
   text |-> <<IF kind = "prd" THEN "Error generating PRD: "
                              ELSE "Error generating task list: ">> \o message]

otherVars ==
  <<classifierVars, explanation, config, engineVars, lawVars, sideVars>>

\* generatePRD, line 105: initDirectories succeeds or throws
InitDirectories ==
  /\ genPc = "start"
  /\ \/ /\ genPc' = "research"
        /\ UNCHANGED genResponse
     \/ /\ genPc' = "done"
        /\ genResponse' = ErrorResponse(genKind, <<"EACCES">>)
  /\ UNCHANGED <<genKind, research, researchPosts, settleOrder, genPrompt,
                 generationCalls, genOutcome, writeCalls, artifact>>
  /\ UNCHANGED otherVars

\* generatePRD, lines 117-128, and performResearchQuery, lines 12-37: the
\* three queries are started, each one posting its request unless the
\* configuration has no perplexityModel
StartResearch ==
  /\ genPc = "research"
  /\ IF config.perplexityModel = ""
     THEN /\ research' = [i \in QueryIds |-> Rejected("Perplexity model name is not configured.")]
          /\ settleOrder' = <<1, 2, 3>>
          /\ UNCHANGED researchPosts
     ELSE /\ research' = [i \in QueryIds |-> [status |-> "posted"]]
          /\ researchPosts' = researchPosts + 3
          /\ UNCHANGED settleOrder
  /\ genPc' = "settling"
  /\ UNCHANGED <<genKind, genPrompt, generationCalls, genOutcome, writeCalls,
                 artifact, genResponse>>
  /\ UNCHANGED otherVars

\* performResearchQuery, lines 39-61: one of the posted queries settles
SettleQuery(i) ==
  /\ genPc = "settling"
  /\ research[i].status = "posted"
  /\ \E response \in {[transport |-> "ok", content |-> <<NL, "findings", SP>>],
                       [transport |-> "ok", content |-> <<SP>>],
                       [transport |-> "ok", content |-> <<>>],
                       [transport |-> "http_error"]} :
       research' = [research EXCEPT ![i] = ResearchOutcome(response)]
  /\ settleOrder' = Append(settleOrder, i)
  /\ UNCHANGED <<genKind, genPc, researchPosts, genPrompt, generationCalls,
                 genOutcome, writeCalls, artifact, genResponse>>
  /\ UNCHANGED otherVars

\* generatePRD, lines 124-160: Promise.allSettled resolves, the prompt is
\* assembled and processWithSequentialThinking is called
StartGeneration ==
  /\ genPc = "settling"
  /\ \A i \in QueryIds : Settled(research[i])
  /\ genPrompt' = mainGenerationPrompt(genKind, ResearchContext(genKind, research))
  /\ generationCalls' = generationCalls + 1
  /\ genPc' = "generating"
  /\ UNCHANGED <<genKind, research, researchPosts, settleOrder, genOutcome,
                 writeCalls, artifact, genResponse>>
  /\ UNCHANGED otherVars

\* variant: the error text is saved as the artifact when the generation throws
FinishGeneration_SavesOnFailure ==
  /\ genPc = "generating"
  /\ \E outcome \in GenerationOutcomes :
       /\ genOutcome' = outcome
       /\ IF outcome.threw
          THEN LET message ==
                     <<outcome.error, COLON, SP, outcome.status, SP, "-", SP,
                       outcome.data>>
               IN /\ genResponse' = ErrorResponse(genKind, message)
                  /\ writeCalls' = writeCalls + 1
                  /\ artifact' = message
          ELSE /\ writeCalls' = writeCalls + 1
               /\ \/ /\ artifact' = formattedResult(genKind, outcome.text)
                     /\ genResponse' =
                          [isNull |-> FALSE,
                           text |-> formattedResult(genKind, outcome.text)]
                  \/ /\ UNCHANGED artifact
                     /\ genResponse' = ErrorResponse(genKind, <<"ENOSPC">>)
  /\ genPc' = "done"
  /\ UNCHANGED <<genKind, research, researchPosts, settleOrder, genPrompt,
                 generationCalls>>
  /\ UNCHANGED otherVars

\* generatePRD, lines 156-170 and 180-190: the generation returns and
\* fs.writeFile is called, or the generation throws
FinishGeneration ==
  /\ genPc = "generating"
  /\ \E outcome \in GenerationOutcomes :
       /\ genOutcome' = outcome
       /\ IF outcome.threw
          THEN /\ genResponse' =
                    ErrorResponse(genKind,
                                  <<outcome.error, COLON, SP, outcome.status,
                                    SP, "-", SP, outcome.data>>)
               /\ UNCHANGED <<writeCalls, artifact>>
          ELSE /\ writeCalls' = writeCalls + 1
               /\ \/ /\ artifact' = formattedResult(genKind, outcome.text)
                     /\ genResponse' =
                          [isNull |-> FALSE,
                           text |-> formattedResult(genKind, outcome.text)]
                  \/ /\ UNCHANGED artifact
                     /\ genResponse' = ErrorResponse(genKind, <<"ENOSPC">>)
  /\ genPc' = "done"
  /\ UNCHANGED <<genKind, research, researchPosts, settleOrder, genPrompt,
                 generationCalls>>
  /\ UNCHANGED otherVars

GeneratorInit ==
  /\ ClassifierIdle
  /\ explanation = NoOutcome
  /\ config \in {ServerConfig, [ServerConfig EXCEPT !.perplexityModel = ""]}
  /\ EngineIdle
  /\ LawIdle
  /\ SideIdle("none")
  /\ genKind \in {"prd", "task-list"}
  /\ genPc = "start"
  /\ research = [i \in QueryIds |-> [status |-> "unsent"]]
  /\ researchPosts = 0
  /\ settleOrder = <<>>
  /\ genPrompt = <<>>
  /\ generationCalls = 0
  /\ genOutcome = NoOutcome
  /\ writeCalls = 0
  /\ artifact = NoOutcome
  /\ genResponse = NoOutcome

GeneratorNext ==
  \/ InitDirectories
  \/ StartResearch
  \/ \E i \in QueryIds : SettleQuery(i)
  \/ StartGeneration
  \/ FinishGeneration

GeneratorSpec == GeneratorInit /\ [][GeneratorNext]_vars

\* C11: a completion that fails in transport, in whichever round, is the
\* last call of the invocation: it is not retried, the engine throws an error
\* that carries the status and the response body, no round is appended for
\* it and no text is returned to the caller.
C11_TransportFailure ==
  \A i \in 1..Len(received) :
    received[i].transport # "ok" =>
      /\ i = Len(received)
      /\ modelCalls = i
      /\ engineError.threw
      /\ engineError.error = API_ERROR
      /\ engineError.status = received[i].status
      /\ engineError.data = received[i].data
      /\ Len(thoughts) = i - 1
      /\ sequentialResult = <<>>
      /\ pc \in {"default", "done"}
      /\ stage \in {"none", "default"}

C11_Witness ==
  /\ pc = "done"
  /\ Len(received) = 2
  /\ received[2].transport = "http_error"
  /\ engineError.status = "500"
  /\ engineError.data = "overloaded"
  /\ thoughts[1].thought = PrdGenerator
  /\ sequentialResult = <<>>

\* C12: the thought_number of the rounds held in the history increases along
\* the history.
C12_Original ==
  \A i, j \in 1..Len(thoughts) :
    i < j => thoughts[i].thought_number < thoughts[j].thought_number

\* C14: at most one completion is in flight; the call of round k+1 is issued
\* only when round k's completion has resolved and its round is in the
\* history; hybridMatch has no result and does not go on while the engine is
\* running.
C14_OneInFlight ==
  /\ modelCalls - Len(received) \in {0, 1}
  /\ (modelCalls - Len(received) = 1 <=> pc = "await")
  /\ (pc = "await" => Len(thoughts) = modelCalls - 1)
  /\ (pc \in {"loop", "await"} =>
        result.isNull /\ stage = "none" /\ sequentialResult = <<>>)
  /\ (pc = "parse" =>
        /\ modelCalls = Len(received)
        /\ thoughts # <<>>
        /\ ~Last(thoughts).next_thought_needed)
  /\ (pc = "default" \/ ~result.isNull => modelCalls = Len(received))

C14_Witness ==
  /\ pc = "await"
  /\ modelCalls = 2
  /\ Len(received) = 1
  /\ Len(thoughts) = 1
  /\ result.isNull

\* C17: the parameters of a rule match are extractParameters(request,
\* matchedPattern) when the pattern is present and is not the description
\* match, and empty otherwise; a request "research <topic>" matched by
\* "research {topic}" yields method rule and {topic: <topic>}.
C17_RuleParameters ==
  stage = "rule" =>
    /\ result.parameters =
         IF matchResult.matchedPattern \notin {NoPattern, DESCRIPTION_MATCH}
         THEN extractParameters(request, matchResult.matchedPattern)
         ELSE {}
    /\ (/\ matchResult.matchedPattern = ResearchTopic
        /\ Len(request) >= 2 /\ request[1] = "research" /\ request[2] = SP
        => /\ result.matchMethod = "rule"
           /\ result.parameters =
                {<<"topic", SubSeq(request, 3, Len(request))>>})

C17_Witness ==
  /\ stage = "rule"
  /\ request = <<"research", SP, "quantum">>
  /\ result.matchedPattern = ResearchTopic
  /\ result.parameters = {<<"topic", <<"quantum">>>>}
  /\ ~result.requiresConfirmation

\* C18: the rationale of a returned match is the description rationale for a
\* rule match on the description, the pattern rationale quoting the pattern
\* for any other rule match, the intent rationale stating the confidence as
\* a percentage for an intent match, the analysis rationale for an accepted
\* sequential match and the defaulting rationale for the default fallback;
\* it is never the generic rationale.
C18_Explanation ==
  ~explanation.isNull =>
    /\ explanation.kind # "generic"
    /\ explanation.toolName = result.toolName
    /\ (stage = "rule" =>
          IF result.matchedPattern = "description_match"
          THEN explanation.kind = "description"
          ELSE /\ explanation.kind = "pattern"
               /\ explanation.pattern = result.matchedPattern)
    /\ (stage = "intent" =>
          /\ explanation.kind = "intent"
          /\ explanation.percent = result.confidence)
    /\ (stage = "sequential" => explanation.kind = "analysis")
    /\ (stage = "default" => explanation.kind = "defaulting")

C18_Witness ==
  /\ stage = "default"
  /\ ~explanation.isNull
  /\ explanation.kind = "defaulting"
  /\ explanation.toolName = ResearchManager

\* C13: every thought getNextThought returns to an invocation is appended at
\* the end of that invocation's history, one round per successful call, and
\* the rounds already there stay as they were and where they were, also when
\* the new round is marked as a revision of, or a branch from, an earlier one.
C13_AppendOnly ==
  [][\A e \in Runs :
       /\ SubSeq(History(e)', 1, Len(History(e))) = History(e)
       /\ IF runAnswers'[e] # runAnswers[e]
          THEN History(e)' = Append(History(e), Last(runAnswers'[e]))
          ELSE History(e)' = History(e)]_vars

C13_Witness ==
  /\ Len(History("first")) = 2
  /\ History("first")[1] = Thought(<<"plan">>, TRUE, 1, 5)
  /\ IsRevision(History("first")[2])
  /\ History("first")[2].revises_thought = 1
  /\ Len(History("second")) = 2
  /\ History("second")[1] = Thought(<<"plan">>, TRUE, 1, 5)
  /\ ("branch_from_thought" \in DOMAIN (History("second")[2]))
  /\ History("second")[2].branch_from_thought = 1

\* C15: of two invocations that interleave at their model calls, each one's
\* history holds exactly the thoughts returned to its own calls, each of its
\* prompts is built from its own task and the thoughts returned to it before,
\* and it returns the text of its own last thought.
C15_NoSharedState ==
  \A e \in Runs :
    /\ History(e) = runAnswers[e]
    /\ \A k \in 1..Len(runPrompts[e]) :
         runPrompts[e][k].prompt =
           BuildPrompt(SubSeq(runAnswers[e], 1, k - 1), runTask[e])
    /\ (runPc[e] = "returned" =>
          /\ runAnswers[e] # <<>>
          /\ runOutcome[e].text = Last(runAnswers[e]).thought)

C15_Witness ==
  /\ runPc["first"] = "await"
  /\ Len(runPrompts["first"]) = 2
  /\ runPc["second"] = "returned"
  /\ Len(runPrompts["second"]) = 2
  /\ runTask["first"] # runTask["second"]
  /\ runAnswers["first"][1] # runAnswers["second"][1]
  /\ runOutcome["second"].text = <<"research-", "manager">>

\* C19: when the configuration has no geminiModel, no invocation of the
\* engine posts a request.
C19_Original ==
  config.geminiModel = "" => \A e \in Runs : runPrompts[e] = <<>>

\* C16: with the matcher's output held fixed, a stage that accepted under a
\* threshold accepts under every lower threshold; the decision is the
\* comparison hybridMatch makes at the rule and intent stages.
C16_MonotonicThreshold ==
  /\ (lawPrevious = "accepted" => lawDecision = "accepted")
  /\ (lawStage = "rule" /\ lawThreshold = MEDIUM_CONFIDENCE =>
        ((lawDecision = "accepted") <=> RuleAccepts(lawCandidate)))
  /\ (lawStage = "intent" /\ lawThreshold = LOW_CONFIDENCE =>
        ((lawDecision = "accepted") <=> IntentAccepts(lawCandidate)))

C16_Witness ==
  /\ lawStage = "rule"
  /\ lawPrevious = "accepted"
  /\ lawDecision = "accepted"
  /\ lawCandidate.confidence = MEDIUM_CONFIDENCE
  /\ lawThreshold < MEDIUM_CONFIDENCE

\* the section the prompt is to carry for query i
TopicSection(i) ==
  <<"### ", queryLabels(genKind)[i], COLON, NL>>
    \o (IF research[i].status = "fulfilled"
        THEN research[i].value
        ELSE <<RESEARCH_FAILED>>)
    \o <<NL, NL>>

\* the prompt ends with the three sections in query order
SectionsInQueryOrder ==
  LET sections == TopicSection(1) \o TopicSection(2) \o TopicSection(3) IN
    /\ Len(genPrompt) >= Len(sections)
    /\ SubSeq(genPrompt, Len(genPrompt) - Len(sections) + 1, Len(genPrompt))
         = sections

ResearchRan == \A i \in QueryIds : Settled(research[i])

C21_Original ==
  (/\ genPc = "done"
   /\ genOutcome # NoOutcome
   /\ ~genOutcome.threw
   /\ writeCalls = 1
   /\ artifact = NoOutcome)
  => genResponse =
       [isNull |-> FALSE, text |-> formattedResult(genKind, genOutcome.text)]

\* C22: when the engine throws in the main generation step, the generator
\* ends with a response whose text is 'Error generating ...: ' followed by
\* the error's message, fs.writeFile is not called and no artifact exists.
C22_GenerationFailure ==
  (genOutcome # NoOutcome /\ genOutcome.threw) =>
    /\ genPc = "done"
    /\ genResponse # NoOutcome
    /\ genResponse.text =
         <<IF genKind = "prd" THEN "Error generating PRD: "
                              ELSE "Error generating task list: ",
           "API error", COLON, SP, "500", SP, "-", SP, "overloaded">>
    /\ writeCalls = 0
    /\ artifact = NoOutcome

C22_Witness ==
  /\ genPc = "done"
  /\ genOutcome # NoOutcome
  /\ genOutcome.threw
  /\ research[1].status = "fulfilled"
  /\ generationCalls = 1
  /\ genKind = "task-list"
  /\ writeCalls = 0

\* C27: the tool of every match accepted at the sequential stage is one of
\* the options listed in the stage's prompt.
C27_Original ==
  stage = "sequential" =>
    \* hybridMatch, line 90: the options the stage's prompt lists
    result.toolName \in {ResearchManager, PrdGenerator,
                         <<"user-stories-", "generator">>,
                         <<"task-list-", "generator">>,
                         <<"rules-", "generator">>, <<"workflow-", "manager">>}

\* C28: the engine throws only after a transport failure: every completion
\* delivered with a success status has its round in the history, and an
\* error of the engine follows a response that failed in transport.
C28_Original ==
  /\ \A i \in 1..Len(received) :
       received[i].transport = "ok" => Len(thoughts) >= i
  /\ (engineError.threw =>
        received # <<>> /\ Last(received).transport # "ok")

\* the first position from `from` on at which sub occurs in s, or 0
FirstAt(sub, s, from) ==
  LET ps == {p \in from..Len(s) : (/\ p >= 1
                                   /\ p + Len(sub) - 1 <= Len(s)
                                   /\ SubSeq(s, p, p + Len(sub) - 1) = sub)} IN
    IF ps = {} THEN 0 ELSE Min(ps)

\* the rounds occur in s one after the other from `from` on, and the task
\* occurs after the last of them
RECURSIVE RoundsThenTask(_, _, _, _)
RoundsThenTask(rounds, task, s, from) ==
  IF rounds = <<>>
  THEN FirstAt(<<"Task: ">> \o task, s, from) # 0
  ELSE LET t == rounds[1]
           \* the round as the prompt is to show it: its index, then its text
           labelled ==
             <<"[Thought ", ToString(t.thought_number), "/",
               ToString(t.total_thoughts), "]: ">> \o t.thought
           at == FirstAt(labelled, s, from)
       IN /\ at # 0
          /\ RoundsThenTask(Tail(rounds), task, s, at + Len(labelled))

\* C24: the prompt of an invocation's round k >= 2 shows the rounds 1..k-1
\* of its history in order, each with its index and its text, and the task
\* after them; the prompt of round 1 shows the task and no round.
C24_PromptAccumulates ==
  \A e \in Runs :
    \A k \in 1..Len(runPrompts[e]) :
      LET prompt == runPrompts[e][k].prompt IN
        /\ k - 1 <= Len(runAnswers[e])
        /\ RoundsThenTask(SubSeq(runAnswers[e], 1, k - 1), runTask[e],
                          prompt, 1)
        /\ (k = 1 =>
              /\ ~includes(prompt, "[Thought ")
              /\ ~includes(prompt, "Previous thoughts:"))

C24_Witness ==
  /\ Len(runPrompts["first"]) = 3
  /\ runAnswers["first"][1] = Thought(<<"plan">>, TRUE, 1, 5)
  /\ IsRevision(runAnswers["first"][2])
  /\ runTask["first"] = <<"task-a">>
  /\ FirstAt(<<"[Thought ", "1", "/", "5", "]: ", "plan", NL, NL,
               "[Thought ", "2", "/", "5", "]: ", "revise", NL, NL,
               "Task: ", "task-a">>,
             runPrompts["first"][3].prompt, 3) = 3

\* ----------------------------------------- the loop without a round bound
\* getNextThought, lines 147-186: what kind of answer a response is
AnswerKind(response) ==
  IF response.transport # "ok"
  THEN "failure"
  ELSE IF ~response.hasChoices
       THEN "no_choices"
       ELSE IF ~ValidThought(response.content)
            THEN "malformed"
            ELSE IF response.content.obj.next_thought_needed
                 THEN "continue"
                 ELSE "final"

\* variant: the loop also stops once the estimate is reached
LoopRequestThought_StopsAtEstimate ==
  /\ loopPc = "loop"
  /\ loopCurrent.next_thought_needed
  /\ loopCurrent.thought_number < loopCurrent.total_thoughts
  /\ loopPc' = "await"
  /\ UNCHANGED <<loopCurrent, loopRounds, loopLast>>
  /\ UNCHANGED <<coreVars, handlerVars, kitVars>>

\* processWithSequentialThinking, lines 87-100: the loop test holds and the
\* next completion is requested, whatever the length of the history
LoopRequestThought ==
  /\ loopPc = "loop"
  /\ loopCurrent.next_thought_needed
  /\ loopPc' = "await"
  /\ UNCHANGED <<loopCurrent, loopRounds, loopLast>>
  /\ UNCHANGED <<coreVars, handlerVars, kitVars>>

\* getNextThought, lines 147-186, then lines 103-104 of the loop
LoopReceiveThought ==
  /\ loopPc = "await"
  /\ \E response \in Responses :
       LET next == getNextThought(response) IN
         /\ loopLast' = AnswerKind(response)
         /\ IF next.threw
            THEN /\ loopPc' = "failed"
                 /\ UNCHANGED <<loopCurrent, loopRounds>>
            ELSE /\ loopRounds' = IF loopRounds < MaxLoopRounds
                                  THEN loopRounds + 1
                                  ELSE loopRounds
                 /\ loopCurrent' = next.thought
                 /\ loopPc' = "loop"
  /\ UNCHANGED <<coreVars, handlerVars, kitVars>>

\* processWithSequentialThinking, lines 87 and 108
LoopReturnThought ==
  /\ loopPc = "loop"
  /\ ~loopCurrent.next_thought_needed
  /\ loopPc' = "returned"
  /\ UNCHANGED <<loopCurrent, loopRounds, loopLast>>
  /\ UNCHANGED <<coreVars, handlerVars, kitVars>>

\* processWithSequentialThinking, lines 62-71: the invocation has begun
LoopInit ==
  /\ ClassifierIdle
  /\ explanation = NoOutcome
  /\ config = ServerConfig
  /\ EngineIdle
  /\ GeneratorIdle
  /\ LawIdle
  /\ SideIdle("loop")
  /\ loopPc = "loop"
  /\ loopCurrent = InitialThought
  /\ loopRounds = 0
  /\ loopLast = "none"

LoopNext ==
  \/ LoopRequestThought
  \/ LoopReceiveThought
  \/ LoopReturnThought

\* every posted request is answered or fails, and the continuation of an
\* await runs once its promise has settled
LoopSpec ==
  /\ LoopInit
  /\ [][LoopNext]_vars
  /\ WF_vars(LoopRequestThought)
  /\ WF_vars(LoopReceiveThought)
  /\ WF_vars(LoopReturnThought)

\* C25: an invocation whose last answer was final, malformed or a failure
\* eventually returns or fails, and it ends only after such an answer; while
\* every answer is a well-formed continuing thought it never ends, it posts
\* the next request whatever the length of its history, each answer adds one
\* round, and the history eventually passes every length.
C25_NoLoopGuard ==
  /\ (loopLast \in {"final", "malformed", "no_choices", "failure"})
       ~> (loopPc \in {"returned", "failed"})
  /\ [](loopPc \in {"returned", "failed"}
          => loopLast \in {"final", "malformed", "no_choices", "failure"})
  /\ [](loopLast = "continue" /\ loopPc = "loop" => ENABLED LoopRequestThought)
  /\ [][loopPc = "await" /\ loopLast' = "continue"
            /\ loopRounds < MaxLoopRounds
          => loopRounds' = loopRounds + 1]_vars
  /\ <>(\/ loopLast \in {"final", "malformed", "no_choices", "failure"}
        \/ loopRounds = MaxLoopRounds)

C25_Witness ==
  /\ loopRounds = MaxLoopRounds
  /\ loopLast = "continue"
  /\ loopPc = "await"

\* ------------------------------------------- the process-request handler

\* server.ts, lines 205-250: the keys of toolExecutors
ExecutorNames ==
  {<<"fullstack-starter-kit-", "generator">>, ResearchManager,
   <<"rules-", "generator">>, PrdGenerator,
   <<"user-stories-", "generator">>, <<"task-list-", "generator">>}

\* hybridMatch, lines 40-135: the matches it may return for a request
Classifications(req) ==
  {RuleResult(req, m) :
     m \in {c \in {Candidate(t, conf, pat) :
                     t \in ToolNames \cup {<<"workflow-", "manager">>},
                     conf \in RuleConfValues,
                     pat \in {DESCRIPTION_MATCH, ResearchTopic, NoPattern}} :
              RuleAccepts(c)}}
  \cup {IntentResult(req, m) :
          m \in {c \in {Candidate(t, conf, NoPattern) :
                          t \in ToolNames \cup {<<"workflow-", "manager">>},
                          conf \in IntentConfValues} :
                   IntentAccepts(c)}}
  \cup {SequentialResult(req, t) :
          t \in {n \in {ToolNameOf(c.obj.thought) : c \in WellFormedContents} :
                   LooksLikeTool(n)}}
  \cup {DefaultResult(req)}

\* getMatchExplanation, lines 166-188: the sentence returned
ExplanationText(match) ==
  LET e == getMatchExplanation(match) IN
    CASE e.kind = "description" ->
           <<"I chose the ">> \o e.toolName
             \o <<" because keywords in your request matched its description.">>
      [] e.kind = "pattern" ->
           <<"I chose the ">> \o e.toolName
             \o <<" because your request matched the pattern: ", ("\""),
                  e.pattern, ("\"")>>
      [] e.kind = "intent" ->
           <<"I chose the ">> \o e.toolName
             \o <<" based on the intent of your request. I'm ",
                  ToString(e.percent), "% confident this is what you meant.">>
      [] e.kind = "defaulting" ->
           <<"I wasn't sure which tool to use, so I'm defaulting to the ">>
             \o e.toolName
             \o <<". Please let me know if you'd prefer a different tool.">>
      [] e.kind = "analysis" ->
           <<"After analyzing your request, I believe the ">> \o e.toolName
             \o <<" is the most appropriate tool to use.">>
      [] OTHER ->
           <<"I selected the ">> \o e.toolName \o <<" based on your request.">>

\* processUserRequest, lines 35-41
ProcessedRequest(match) ==
  [toolName |-> match.toolName,
   parameters |-> match.parameters,
   explanation |-> ExplanationText(match),
   confidence |-> match.confidence,
   requiresConfirmation |-> match.requiresConfirmation]

StringifyString(str) ==
  <<"\"">>
    \o [i \in 1..Len(str) |-> IF str[i] = "\"" THEN "\\\""
                              ELSE IF str[i] = NL THEN "\\n"
                              ELSE str[i]]
    \o <<"\"">>

RECURSIVE StringifyEntries(_)
StringifyEntries(entries) ==
  IF entries = {}
  THEN <<>>
  ELSE LET entry == CHOOSE x \in entries : TRUE
           rest == entries \ {entry}
       IN StringifyString(<<entry[1]>>) \o <<COLON>>
            \o StringifyString(entry[2])
            \o (IF rest = {} THEN <<>> ELSE <<",">>)
            \o StringifyEntries(rest)

\* JSON.stringify(processedRequest), line 48
JSONStringify(p) ==
  <<"{">> \o StringifyString(<<"toolName">>) \o <<COLON>>
    \o StringifyString(p.toolName) \o <<",">>
    \o StringifyString(<<"parameters">>) \o <<COLON, "{">>
    \o StringifyEntries(p.parameters) \o <<"}", ",">>
    \o StringifyString(<<"explanation">>) \o <<COLON>>
    \o StringifyString(p.explanation) \o <<",">>
    \o StringifyString(<<"confidence">>)
    \o <<COLON, ToString(p.confidence), ",">>
    \o StringifyString(<<"requiresConfirmation">>)
    \o <<COLON, IF p.requiresConfirmation THEN "true" ELSE "false", "}">>

\* JSON.parse, server.ts line 191: the value whose JSON text this is; a text
\* that is the JSON text of no value is a SyntaxError
JSONParse(text) ==
  LET values == {ProcessedRequest(m) :
                   m \in UNION {Classifications(r) : r \in Requests}}
  IN IF \E p \in values : JSONStringify(p) = text
     THEN [threw |-> FALSE,
           value |-> CHOOSE p \in values : JSONStringify(p) = text]
     ELSE [threw |-> TRUE, message |-> <<"SyntaxError">>]

TextItem(text) == [type |-> "text", text |-> text]

\* a CallToolResult without the isError field, and one with it
ToolResult(content) == [isNull |-> FALSE, content |-> content]
ToolResultWith(content, isError) ==
  [isNull |-> FALSE, content |-> content, isError |-> isError]

IsError(r) == "isError" \in DOMAIN r /\ r.isError

\* processUserRequest, lines 27-65
processUserRequest(outcome) ==
  IF outcome.threw
  THEN ToolResultWith(
         <<TextItem(<<"Error processing request: ">> \o outcome.message)>>,
         TRUE)
  ELSE ToolResult(<<TextItem(JSONStringify(ProcessedRequest(outcome.match)))>>)

\* server.ts, lines 193-200
ConfirmationResponse(p) ==
  ToolResult(
    <<TextItem(<<"I'll use the ">> \o p.toolName
                 \o <<" for this request.", NL, NL>> \o p.explanation
                 \o <<NL, NL, "Confidence: ", ToString(p.confidence), "%">>)>>)

\* server.ts, lines 256-265
ExecutedResponse(p, toolResult) ==
  LET content ==
        <<TextItem(<<"Using ">> \o p.toolName \o <<COLON, NL, NL>>
                     \o p.explanation \o <<NL, NL, "---", NL, NL>>)>>
          \o toolResult.content
  IN IF "isError" \in DOMAIN toolResult
     THEN ToolResultWith(content, toolResult.isError)
     ELSE ToolResult(content)

\* variant: the error of the dispatch is thrown again
CatchDispatchError_Rethrow(message) == [threw |-> TRUE, message |-> message]

\* executeProcessedRequest, lines 89-101
CatchDispatchError(message) ==
  [threw |-> FALSE,
   result |-> ToolResultWith(
                <<TextItem(<<"Error executing tool: ">> \o message)>>, TRUE)]

\* how an executor may settle: with a result that has no isError field, with
\* one that has it, or with an error (the starter-kit executor parses a
\* parameter as JSON before it calls its generator, server.ts lines 209-210)
ExecutorOutcomes ==
  {[threw |-> FALSE, result |-> ToolResult(<<TextItem(<<"document">>)>>)],
   [threw |-> FALSE,
    result |-> ToolResultWith(<<TextItem(<<"document">>)>>, FALSE)],
   [threw |-> FALSE,
    result |-> ToolResultWith(
                 <<TextItem(<<"Error: LLM output failed validation.">>)>>,
                 TRUE)],
   [threw |-> TRUE, message |-> <<"SyntaxError">>]}

\* server.ts, line 175, and processUserRequest, lines 27-65
ProcessRequest ==
  /\ hPc = "start"
  /\ \E outcome \in
         {[threw |-> FALSE, match |-> m] : m \in Classifications(hRequest)}
         \cup {[threw |-> TRUE, message |-> e] : e \in {<<"patterns", SP, "not", SP, "loaded">>}} :
       /\ hMatch' = outcome
       /\ hProcessed' = processUserRequest(outcome)
  /\ hPc' = "processed"
  /\ UNCHANGED <<hRequest, hParsed, hInvoked, hExecutor, hToolResult,
                 hResponse>>
  /\ UNCHANGED <<coreVars, loopVars, kitVars>>

\* variant: the tool is executed whether or not confirmation is required
HandleProcessed_NoConfirmation ==
  /\ hPc = "processed"
  /\ LET parsed == JSONParse(hProcessed.content[1].text) IN
       IF parsed.threw
       THEN /\ hResponse' = [isNull |-> FALSE, raised |-> TRUE,
                              message |-> parsed.message]
            /\ hPc' = "raised"
            /\ UNCHANGED hParsed
       ELSE /\ hParsed' = [isNull |-> FALSE, value |-> parsed.value]
            /\ hPc' = "dispatch"
            /\ UNCHANGED hResponse
  /\ UNCHANGED <<hRequest, hMatch, hProcessed, hInvoked, hExecutor,
                 hToolResult>>
  /\ UNCHANGED <<coreVars, loopVars, kitVars>>

\* server.ts, lines 177-201: the format check, JSON.parse and the
\* confirmation branch
HandleProcessed ==
  /\ hPc = "processed"
  /\ IF ~(/\ Len(hProcessed.content) >= 1
          /\ hProcessed.content[1].type = "text")
     THEN /\ hResponse' =
               [isNull |-> FALSE, raised |-> FALSE,
                result |-> ToolResultWith(
                  <<TextItem(<<"Error: Failed to process request - invalid response format">>)>>,
                  TRUE)]
          /\ hPc' = "done"
          /\ UNCHANGED hParsed
     ELSE LET parsed == JSONParse(hProcessed.content[1].text) IN
            IF parsed.threw
            THEN /\ hResponse' = [isNull |-> FALSE, raised |-> TRUE,
                                   message |-> parsed.message]
                 /\ hPc' = "raised"
                 /\ UNCHANGED hParsed
            ELSE /\ hParsed' = [isNull |-> FALSE, value |-> parsed.value]
                 /\ IF parsed.value.requiresConfirmation
                    THEN /\ hResponse' =
                              [isNull |-> FALSE, raised |-> FALSE,
                               result |-> ConfirmationResponse(parsed.value)]
                         /\ hPc' = "done"
                    ELSE /\ hPc' = "dispatch"
                         /\ UNCHANGED hResponse
  /\ UNCHANGED <<hRequest, hMatch, hProcessed, hInvoked, hExecutor,
                 hToolResult>>
  /\ UNCHANGED <<coreVars, loopVars, kitVars>>

\* server.ts, line 253, and executeProcessedRequest, lines 79-88: the
\* executor is looked up and called
Dispatch ==
  /\ hPc = "dispatch"
  /\ IF hParsed.value.toolName \in ExecutorNames
     THEN /\ hInvoked' =
               Append(hInvoked, [toolName |-> hParsed.value.toolName,
                                 parameters |-> hParsed.value.parameters])
          /\ hPc' = "executing"
          /\ UNCHANGED hToolResult
     ELSE /\ hToolResult' =
               CatchDispatchError(<<"No executor found for tool: ">>
                                    \o hParsed.value.toolName)
          /\ hPc' = "dispatched"
          /\ UNCHANGED hInvoked
  /\ UNCHANGED <<hRequest, hMatch, hProcessed, hParsed, hExecutor, hResponse>>
  /\ UNCHANGED <<coreVars, loopVars, kitVars>>

\* executeProcessedRequest, lines 88-101: the executor settles
ExecutorSettles ==
  /\ hPc = "executing"
  /\ \E outcome \in ExecutorOutcomes :
       /\ hExecutor' = outcome
       /\ hToolResult' =
            IF outcome.threw
            THEN CatchDispatchError(outcome.message)
            ELSE [threw |-> FALSE, result |-> outcome.result]
  /\ hPc' = "dispatched"
  /\ UNCHANGED <<hRequest, hMatch, hProcessed, hParsed, hInvoked, hResponse>>
  /\ UNCHANGED <<coreVars, loopVars, kitVars>>

\* server.ts, lines 253-265
ReturnExecuted ==
  /\ hPc = "dispatched"
  /\ IF hToolResult.threw
     THEN /\ hResponse' = [isNull |-> FALSE, raised |-> TRUE,
                            message |-> hToolResult.message]
          /\ hPc' = "raised"
     ELSE /\ hResponse' =
               [isNull |-> FALSE, raised |-> FALSE,
                result |-> ExecutedResponse(hParsed.value, hToolResult.result)]
          /\ hPc' = "done"
  /\ UNCHANGED <<hRequest, hMatch, hProcessed, hParsed, hInvoked, hExecutor,
                 hToolResult>>
  /\ UNCHANGED <<coreVars, loopVars, kitVars>>

\* server.ts, line 173: the handler is called with a request
HandlerInit ==
  /\ ClassifierIdle
  /\ explanation = NoOutcome
  /\ config = ServerConfig
  /\ EngineIdle
  /\ GeneratorIdle
  /\ LawIdle
  /\ SideIdle("handler")
  /\ hPc = "start"
  /\ hRequest \in Requests
  /\ hMatch = NoOutcome
  /\ hProcessed = NoOutcome
  /\ hParsed = NoOutcome
  /\ hInvoked = <<>>
  /\ hExecutor = NoOutcome
  /\ hToolResult = NoOutcome
  /\ hResponse = NoOutcome

HandlerNext ==
  \/ ProcessRequest
  \/ HandleProcessed
  \/ Dispatch
  \/ ExecutorSettles
  \/ ReturnExecuted

HandlerSpec == HandlerInit /\ [][HandlerNext]_vars

\* C26 as stated: no executor is ever invoked for a match that requires
\* confirmation, a finished handler has answered such a match with the
\* confirmation message, and it has invoked exactly one executor, the one
\* under the match's tool name, for a match that requires none.
C26_Original ==
  /\ (hInvoked # <<>> => ~hMatch.match.requiresConfirmation)
  /\ ((hPc \in {"done", "raised"}) /\ ~hMatch.threw =>
        LET m == hMatch.match IN
          /\ (m.matchMethod = "sequential" \/ m.confidence < HIGH_CONFIDENCE
                => m.requiresConfirmation)
          /\ IF m.requiresConfirmation
             THEN /\ hInvoked = <<>>
                  /\ ~hResponse.raised
                  /\ ~IsError(hResponse.result)
                  /\ Len(hResponse.result.content) = 1
                  /\ LET text == hResponse.result.content[1].text IN
                       /\ FirstAt(m.toolName, text, 1) # 0
                       /\ FirstAt(<<"Confidence: ", ToString(m.confidence),
                                    "%">>, text, 1) # 0
             ELSE hInvoked = <<[toolName |-> m.toolName,
                                parameters |-> m.parameters]>>)

\* C26: no executor is ever invoked for a match that requires confirmation,
\* and a finished handler has answered such a match with the confirmation
\* message; for a match that requires none it has invoked the executor
\* registered under the match's tool name, once and with the match's
\* parameters, and no other; if none is registered under that name it has
\* invoked none and has returned an error result.
C26_GatedByConfirmation ==
  /\ (hInvoked # <<>> => ~hMatch.match.requiresConfirmation)
  /\ ((hPc \in {"done", "raised"}) /\ ~hMatch.threw =>
        LET m == hMatch.match IN
          /\ (m.matchMethod = "sequential" \/ m.confidence < HIGH_CONFIDENCE
                => m.requiresConfirmation)
          /\ IF m.requiresConfirmation
             THEN /\ hInvoked = <<>>
                  /\ ~hResponse.raised
                  /\ ~IsError(hResponse.result)
                  /\ Len(hResponse.result.content) = 1
                  /\ LET text == hResponse.result.content[1].text IN
                       /\ FirstAt(m.toolName, text, 1) # 0
                       /\ FirstAt(<<"Confidence: ", ToString(m.confidence),
                                    "%">>, text, 1) # 0
             ELSE IF m.toolName \in ExecutorNames
                  THEN hInvoked = <<[toolName |-> m.toolName,
                                     parameters |-> m.parameters]>>
                  ELSE /\ hInvoked = <<>>
                       /\ ~hResponse.raised
                       /\ IsError(hResponse.result))

C26_Witness ==
  /\ hPc = "done"
  /\ hToolResult # NoOutcome
  /\ hMatch.match.matchMethod = "intent"
  /\ hMatch.match.toolName = PrdGenerator
  /\ hInvoked = <<[toolName |-> hMatch.match.toolName,
                    parameters |-> hMatch.match.parameters]>>
  /\ ~IsError(hResponse.result)

\* C29 as stated: when hybridMatch threw, so that processUserRequest returned
\* an error result with a plain message, the handler ends by returning an
\* error result; it does not raise and has invoked no executor.
C29_Original ==
  (hPc \in {"done", "raised"}) /\ hMatch.threw =>
    /\ IsError(hProcessed)
    /\ hInvoked = <<>>
    /\ ~hResponse.raised
    /\ IsError(hResponse.result)

\* C30: executeProcessedRequest never raises; under a tool name without an
\* executor it invokes none and returns an error result reporting 'No
\* executor found'; if the executor it invoked throws it returns an error
\* result reporting the message; otherwise it returns the executor's result
\* as it is.
C30_DispatchNeverRaises ==
  hToolResult # NoOutcome =>
    LET p == hParsed.value IN
      /\ ~hToolResult.threw
      /\ IF p.toolName \notin ExecutorNames
         THEN /\ hInvoked = <<>>
              /\ hToolResult.result =
                   ToolResultWith(
                     <<TextItem(<<"Error executing tool: ",
                                  "No executor found for tool: ">>
                                  \o p.toolName)>>, TRUE)
         ELSE /\ hInvoked = <<[toolName |-> p.toolName, parameters |-> p.parameters]>>
              /\ IF hExecutor.threw
                 THEN hToolResult.result =
                        ToolResultWith(
                          <<TextItem(<<"Error executing tool: ">>
                                       \o hExecutor.message)>>, TRUE)
                 ELSE hToolResult.result = hExecutor.result

C30_Witness ==
  /\ hPc = "done"
  /\ hToolResult # NoOutcome
  /\ hParsed.value.toolName = <<"workflow-", "manager">>
  /\ hInvoked = <<>>
  /\ IsError(hToolResult.result)
  /\ IsError(hResponse.result)

\* ---------------------------------------------- the starter-kit generator

\* the final outputs of the engine: a definition, a definition without its
\* description, an empty object, a definition after a heading, a
\* definition cut short, prose, and the empty text
Definition ==
  <<"{", "projectName", COLON, "shop", ",", "description", COLON, "a shop",
    ",", "techStack", COLON, "next", "}">>

KitOutputs ==
  {Definition,
   <<"{", "projectName", COLON, "shop", ",", "techStack", COLON, "next", "}">>,
   <<"{", "}">>,
   <<"Definition", COLON, NL>> \o Definition,
   SubSeq(Definition, 1, Len(Definition) - 1),
   <<"Here", SP, "is", SP, "the", SP, "definition">>,
   <<>>}

\* JSON.parse, line 591: whether the text is an object of members
IsObjectText(text) ==
  /\ Len(text) >= 2
  /\ text[1] = "{"
  /\ text[Len(text)] = "}"
  /\ LET n == Len(text) - 2 IN
       /\ n = 0 \/ n % 4 = 3
       /\ \A i \in 1..n :
            CASE i % 4 = 1 -> text[i + 1] \notin {"{", "}", COLON, ","}
              [] i % 4 = 2 -> text[i + 1] = COLON
              [] i % 4 = 3 -> text[i + 1] \notin {"{", "}", COLON, ","}
              [] OTHER -> text[i + 1] = ","

\* JSON.parse, line 591: the members of the object, as name and value
ObjectMembers(text) ==
  {<<text[i + 1], text[i + 3]>> : i \in {j \in 1..(Len(text) - 2) : j % 4 = 1}}

\* starterKitDefinitionSchema.safeParse, line 594
SchemaAccepts(members) ==
  {"projectName", "description", "techStack"} \subseteq {m[1] : m \in members}

\* variant: an output that parses is taken without validating it
ValidateOutput_ParseOnly(text) ==
  IF ~IsObjectText(text)
  THEN "not_json"
  ELSE "valid"

\* lines 589-630: the verdict on the final output
ValidateOutput(text) ==
  IF ~IsObjectText(text)
  THEN "not_json"
  ELSE IF ~SchemaAccepts(ObjectMembers(text))
       THEN "fails_schema"
       ELSE "valid"

\* lines 726-741
KitError(message) ==
  ToolResultWith(
    <<TextItem(<<"Error generating fullstack starter kit: ">> \o message)>>,
    TRUE)

\* lines 398-429: the analysis call settles
FinishAnalysis ==
  /\ kitPc = "analysis"
  /\ kitCalls' = kitCalls + 1
  /\ \/ /\ kitPc' = "research"
        /\ UNCHANGED kitResponse
     \/ \E e \in {<<"API error">>} :
          /\ kitResponse' = KitError(e)
          /\ kitPc' = "done"
  /\ UNCHANGED <<kitInput, kitResearch, kitDirectory, kitOutput, kitFiles>>
  /\ UNCHANGED <<coreVars, loopVars, handlerVars>>

\* lines 432-474: the three queries settle, or none is sent
FinishResearch ==
  /\ kitPc = "research"
  /\ IF kitInput.request_recommendation
     THEN \E settled \in [QueryIds -> {"fulfilled", "rejected"}] :
            kitResearch' = settled
     ELSE kitResearch' = "skipped"
  /\ kitPc' = "directories"
  /\ UNCHANGED <<kitInput, kitDirectory, kitCalls, kitOutput, kitFiles,
                 kitResponse>>
  /\ UNCHANGED <<coreVars, loopVars, handlerVars>>

\* line 477 and initDirectories, lines 380-382
EnsureDirectory ==
  /\ kitPc = "directories"
  /\ \/ /\ kitDirectory' = TRUE
        /\ kitPc' = "generation"
        /\ UNCHANGED kitResponse
     \/ \E e \in {<<"EACCES">>, <<"ENOSPC">>} :
          /\ kitResponse' = KitError(e)
          /\ kitPc' = "done"
          /\ UNCHANGED kitDirectory
  /\ UNCHANGED <<kitInput, kitResearch, kitCalls, kitOutput, kitFiles>>
  /\ UNCHANGED <<coreVars, loopVars, handlerVars>>

\* lines 583-638: the final generation call settles, its output is validated
\* and, if valid, the definition is handed to fs.writeJson
ValidateDefinition ==
  /\ kitPc = "generation"
  /\ kitCalls' = kitCalls + 1
  /\ \/ \E e \in {<<"API error">>} :
          /\ kitOutput' = [isNull |-> FALSE, threw |-> TRUE, message |-> e]
          /\ kitResponse' = KitError(e)
          /\ kitPc' = "done"
     \/ \E text \in KitOutputs :
          LET verdict == ValidateOutput(text) IN
            /\ kitOutput' = [isNull |-> FALSE, threw |-> FALSE, text |-> text]
            /\ IF verdict = "valid"
               THEN /\ kitPc' = "definition"
                    /\ UNCHANGED kitResponse
               ELSE /\ kitResponse' =
                         ToolResultWith(
                           <<TextItem(
                               IF verdict = "fails_schema"
                               THEN <<"Error: LLM output failed validation.">>
                               ELSE <<"Error: LLM did not return valid JSON definition.",
                                      NL, NL>> \o text)>>,
                           TRUE)
                    /\ kitPc' = "done"
  /\ UNCHANGED <<kitInput, kitResearch, kitDirectory, kitFiles>>
  /\ UNCHANGED <<coreVars, loopVars, handlerVars>>

\* lines 638-662: fs.writeJson settles; the scripts are generated, or their
\* placeholders kept, and the first is handed to fs.writeFile
SaveDefinition ==
  /\ kitPc = "definition"
  /\ \/ /\ kitFiles' = kitFiles \cup {[kind |-> "definition", content |-> kitOutput.text]}
        /\ kitPc' \in {"scripts", "placeholders"}
        /\ UNCHANGED kitResponse
     \/ \E e \in {<<"EACCES">>, <<"ENOSPC">>} :
          /\ kitResponse' = KitError(e)
          /\ kitPc' = "done"
          /\ UNCHANGED kitFiles
  /\ UNCHANGED <<kitInput, kitResearch, kitDirectory, kitCalls, kitOutput>>
  /\ UNCHANGED <<coreVars, loopVars, handlerVars>>

\* lines 644-725: fs.writeFile of the shell script, or of its placeholder if
\* generateSetupScripts threw (lines 644-653), settles; on its failure
\* the batch script is not attempted and the response is returned
SaveShellScript ==
  /\ kitPc \in {"scripts", "placeholders"}
  /\ \/ /\ kitFiles' =
             kitFiles
               \cup {[kind |-> "sh",
                      content |-> IF kitPc = "placeholders"
                                  THEN <<"# Error generating script">>
                                  ELSE <<"sh", SP, "script">>]}
        /\ kitPc' = IF kitPc = "scripts" THEN "scripts_bat"
                    ELSE "placeholders_bat"
        /\ UNCHANGED kitResponse
     \/ /\ kitResponse' =
             ToolResult(<<TextItem(<<"# Fullstack Starter Kit Generator", NL>>
                                     \o kitOutput.text)>>)
        /\ kitPc' = "done"
        /\ UNCHANGED kitFiles
  /\ UNCHANGED <<kitInput, kitResearch, kitDirectory, kitCalls, kitOutput>>
  /\ UNCHANGED <<coreVars, loopVars, handlerVars>>

\* lines 663-725: fs.writeFile of the batch script settles and the response
\* is returned
SaveBatchScript ==
  /\ kitPc \in {"scripts_bat", "placeholders_bat"}
  /\ \/ kitFiles' =
          kitFiles
            \cup {[kind |-> "bat",
                   content |-> IF kitPc = "placeholders_bat"
                               THEN <<"REM Error generating script">>
                               ELSE <<"bat", SP, "script">>]}
     \/ UNCHANGED kitFiles
  /\ kitResponse' =
       ToolResult(<<TextItem(<<"# Fullstack Starter Kit Generator", NL>>
                               \o kitOutput.text)>>)
  /\ kitPc' = "done"
  /\ UNCHANGED <<kitInput, kitResearch, kitDirectory, kitCalls, kitOutput>>
  /\ UNCHANGED <<coreVars, loopVars, handlerVars>>

\* lines 391-427: the generator is called and posts its analysis prompt
StarterKitInit ==
  /\ ClassifierIdle
  /\ explanation = NoOutcome
  /\ config = ServerConfig
  /\ EngineIdle
  /\ GeneratorIdle
  /\ LawIdle
  /\ SideIdle("starter-kit")
  /\ kitPc = "analysis"
  /\ kitInput \in {[isNull |-> FALSE, request_recommendation |-> b] :
                     b \in BOOLEAN}
  /\ kitResearch = "none"
  /\ kitDirectory = FALSE
  /\ kitCalls = 0
  /\ kitOutput = NoOutcome
  /\ kitFiles = {}
  /\ kitResponse = NoOutcome

StarterKitNext ==
  \/ FinishAnalysis
  \/ FinishResearch
  \/ EnsureDirectory
  \/ ValidateDefinition
  \/ SaveDefinition
  \/ SaveShellScript
  \/ SaveBatchScript

StarterKitSpec == StarterKitInit /\ [][StarterKitNext]_vars

\* C23: a definition file or a setup script exists only if the final output
\* parsed as JSON and passed the schema; once the final output is one that is
\* not JSON or fails the schema, the generator has returned a result with
\* isError = true and no file is ever written.
C23_ValidationGate ==
  /\ (kitFiles # {} =>
        /\ kitOutput # NoOutcome
        /\ ~kitOutput.threw
        /\ IsObjectText(kitOutput.text)
        /\ SchemaAccepts(ObjectMembers(kitOutput.text)))
  /\ ((/\ kitOutput # NoOutcome
       /\ ~kitOutput.threw
       /\ ~(/\ IsObjectText(kitOutput.text)
            /\ SchemaAccepts(ObjectMembers(kitOutput.text)))) =>
        /\ kitPc = "done"
        /\ IsError(kitResponse)
        /\ kitFiles = {})

C23_Witness ==
  /\ kitPc = "done"
  /\ kitOutput # NoOutcome
  /\ ~kitOutput.threw
  /\ IsObjectText(kitOutput.text)
  /\ ~SchemaAccepts(ObjectMembers(kitOutput.text))
  /\ ObjectMembers(kitOutput.text) # {}
  /\ IsError(kitResponse)
  /\ kitFiles = {}

====
